---- MODULE Spec2Model ----
(***************************************************************************)
(* Verification model of the messaging core, the DZKP prover, the modulus  *)
(* conversion, the HPKE info and the in-memory transport switch of         *)
(* tyurek/ipa.                                                             *)
(*                                                                         *)
(*  SpecSend      one gateway send channel: GatewaySenders::get_or_create, *)
(*                SendingEnd::send, GatewaySender::send, the               *)
(*                OrderingSender behind it and GatewaySendStream.          *)
(*  SpecRegistry  concurrent GatewaySenders::get_or_create calls on the    *)
(*                DashMap registry.                                        *)
(*  SpecRecv      ReceiveBuffer::receive_request / receive_messages.       *)
(*  SpecMeshSend  Mesh::send calls with the Gateway event loop, its        *)
(*                SendBuffer, the network sink, join and drop.             *)
(*  SpecMeshReceive  Mesh::receive calls with the event loop, its          *)
(*                ReceiveBuffer, the network stream, the heartbeat timer   *)
(*                and drop.                                                *)
(*  SpecEventLoop the event loop with all of its sources at once;          *)
(*                SpecEventLoopFair adds the scheduling of tokio::select!. *)
(*  SpecReorderFair  Mesh::receive with messages arriving in any order,    *)
(*                under the scheduling of the event loop.                  *)
(*  SpecDzkp      the rounds of the DZKP prover over F_31: compute_proof,  *)
(*                the sharing of the proof, gen_challenge_and_recurse, and *)
(*                the verifier's own fold; SpecDzkpFair runs each round to *)
(*                its end.                                                 *)
(*  SpecConvert   modulus conversion of one bit on the three helpers:      *)
(*                convert_bit_local, then the two XORs of convert_bit.     *)
(*  SpecSwitch    the Switch of the in-memory transport: new_peer, listen  *)
(*                and halt.                                                *)
(*  SpecRouter    the loop that Switch::listen spawns with its             *)
(*                QueryCommandRouter, query_stream, the peer links and     *)
(*                halt; SpecRouterFair adds the scheduling of the tasks.   *)
(*  SpecSendBuffer  SendBuffer::new, push and remove_random on their own.  *)
(*  SpecMeshSendFair  SpecMeshSend under the scheduling of the send tasks, *)
(*                the event loop and the sink.                             *)
(*  SpecInfo      hpke::Info::new and Info::into_bytes.                    *)
(*  SpecConvertList  the rows of one convert_bit_list call and the         *)
(*                multiplications they issue.                              *)
(***************************************************************************)
EXTENDS Integers, Sequences, FiniteSets, TLC

(***************************************************************************)
(* Bounds of the model.                                                    *)
(***************************************************************************)
\* largest n of TotalRecords::Specified(n); record ids range over 0..MaxTotal
MaxTotal == 3
\* largest `capacity` (in elements) handed to get_or_create
MaxCapacity == 2
\* M::Size, the serialised size of the message type in bytes
MsgSize == 2

(***************************************************************************)
(* TotalRecords and messages.                                              *)
(***************************************************************************)
Unspecified == [kind |-> "Unspecified", n |-> 0]
Indeterminate == [kind |-> "Indeterminate", n |-> 0]
Specified(k) == [kind |-> "Specified", n |-> k]

\* TotalRecords::is_specified: anything but Unspecified
is_specified(total) == total.kind # "Unspecified"
is_indeterminate(total) == total.kind = "Indeterminate"
\* TotalRecords::is_last: only Specified(n) has a last record, n - 1
is_last(total, i) == total.kind = "Specified" /\ i = total.n - 1

\* totals a channel can be created with (get_or_create asserts is_specified)
ChannelTotals == {Indeterminate} \cup {Specified(k) : k \in 1..MaxTotal}

RecordIds == 0..MaxTotal
\* message values of the message type M; both fit MsgSize >= 2 bytes
Msgs == {1, 258}

\* Message::serialize: MsgSize bytes, little endian
Serialize(m) == [k \in 1..MsgSize |-> (m \div (256 ^ (k - 1))) % 256]

Ok == <<"Ok">>
NoResult == <<"none">>
TooManyRecords(i, total) == <<"TooManyRecords", i, total>>

(***************************************************************************)
(* State of one send channel.                                              *)
(***************************************************************************)
VARIABLES
    created,          \* the registry holds the GatewaySender of the channel
    streams,          \* GatewaySendStreams handed out for the channel
    total_records,    \* GatewaySender.total_records
    capacity_bytes,   \* write_size given to OrderingSender::new
    buf,              \* OrderingSender: the byte ring
    w,                \* OrderingSender: next byte not yet produced to the stream
    slots,            \* OrderingSender: records committed and not yet read
    closed_at,        \* OrderingSender: -1, or the record bound set by close
    write_ready,      \* OrderingSender: suspended writers (writer waker)
    stream_ready,     \* OrderingSender: the stream poll is pending (reader waker)
    pc,               \* per send call (one per record id): where it is
    msg,              \* per send call: the message to serialise
    result,           \* per send call: what GatewaySender::send returned
    RECORDS_SENT,     \* metrics counter
    BYTES_SENT,       \* metrics counter
    written,          \* history: records committed to the OrderingSender
    streamed,         \* history: bytes yielded by the stream, concatenated
    eos,              \* history: times the stream yielded end-of-stream
    reordered         \* history: a record was committed before a smaller one

osVars == <<buf, w, slots, closed_at, write_ready, stream_ready>>
chanVars == <<created, streams, total_records, capacity_bytes>>
callVars == <<pc, msg, result>>
metricVars == <<RECORDS_SENT, BYTES_SENT>>
histVars == <<written, streamed, eos, reordered>>
sendVars == <<chanVars, osVars, callVars, metricVars, histVars>>

(***************************************************************************)
(* State of the registry of send channels.                                 *)
(***************************************************************************)
VARIABLES
    inner,        \* GatewaySenders.inner: ChannelId -> GatewaySender (0: vacant)
    senders,      \* every GatewaySender ever built, by identity
    shard_lock,   \* ChannelId -> caller holding the entry's write lock (0: free)
    reg_pc,       \* per caller: where its get_or_create call is
    reg_args,     \* per caller: the arguments of its call
    reg_ret       \* per caller: (Arc<GatewaySender>, Option<GatewaySendStream>)

regVars == <<inner, senders, shard_lock, reg_pc, reg_args, reg_ret>>

(***************************************************************************)
(* State of the receive buffer.                                            *)
(***************************************************************************)
VARIABLES
    rb_inner,     \* ReceiveBuffer.inner: ChannelId -> RecordId -> ReceiveBufItem
    oneshots,     \* the oneshot channels made by Gateway::receive, by identity
    rb_panic,     \* the panic that ended the owner of the buffer, if any
    rb_arrived    \* history: envelopes handed to receive_messages, in order

recvVars == <<rb_inner, oneshots, rb_panic, rb_arrived>>

(***************************************************************************)
(* State of the Gateway: its event loop, its two request channels, the     *)
(* network and the tasks that call Mesh::send, Mesh::receive and join.     *)
(* The loop's ReceiveBuffer is rb_inner with the oneshots above.           *)
(***************************************************************************)
VARIABLES
    gw_loop,      \* the event-loop task: where it is, or how it ended
    gw_panic,     \* the payload of the panic that ended the loop
    gw_cfg,       \* build and GatewayConfig the gateway was made with
    gw_handle,    \* the Gateway value: "none", "owned", "joined", "dropped"
    join_result,  \* what Gateway::join did in the task that called it
    recv_q,       \* mpsc channel of ReceiveRequests (capacity 1)
    send_q,       \* mpsc channel of SendRequests (capacity 1)
    net_in,       \* frames of the network stream not yet taken by the loop
    net_open,     \* the network stream has not ended
    send_buf,     \* SendBuffer.inner: ChannelId -> pending envelopes
    sink_pending, \* the frame the loop is sending to the network sink
    sink_out,     \* history: (channel, record, call) handed to the sink
    stask,        \* per task calling Mesh::send: position, envelope, result
    rtask,        \* per task calling Mesh::receive: position, result
    gw_elapsed,   \* seconds since the heartbeat timer was last reset
    gw_waited,    \* history: seconds each receive request has been pending
                  \* since it was made or last listed in a diagnostic
    gw_log        \* the diagnostic print_state wrote in the last loop iteration

gwVars == <<gw_loop, gw_panic, gw_cfg, gw_handle, join_result, recv_q, send_q,
            net_in, net_open, send_buf, sink_pending, sink_out, stask, rtask,
            gw_elapsed, gw_waited, gw_log>>

(***************************************************************************)
(* State of one DZKP prover and of the verifier that follows it.           *)
(***************************************************************************)
VARIABLES
    dz_lambda,    \* λ, the chunk size the ProofGenerator is instantiated with
    dz_phase,     \* where the round is: "Idle", "Collecting", "ProofEmitted",
                  \* "ChallengeIssued", "Collapsed"
    dz_round,     \* rounds completed in this run
    dz_uv,        \* the uv list of the round: (u, v) pairs of λ-tuples
    dz_proof,     \* the proof compute_proof returned for dz_uv
    dz_left,      \* proof_left, the share that comes from PRSS
    dz_right,     \* proof_right = proof - proof_left
    dz_r,         \* the challenge of the round
    dz_out,       \* ProofGenerator.uv returned by gen_challenge_and_recurse
    dz_vr,        \* the challenge the verifier derived for the round
    dz_vout       \* the next-round uv list the verifier computed

dzVars == <<dz_lambda, dz_phase, dz_round, dz_uv, dz_proof, dz_left, dz_right,
            dz_r, dz_out, dz_vr, dz_vout>>

\* Modulus conversion of one bit by the three helpers (convert_shares.rs)
VARIABLES
    mc_phase,     \* "Idle", "Shared", "Xor1", "Done"
    mc_key,       \* the match key that was shared
    mc_bit,       \* the bit index the closure converts
    mc_input,     \* helper -> its XorReplicated share of the key
    mc_triple,    \* helper -> its convert_bit_local result (<<>>: not run yet)
    mc_xor1,      \* helper -> its share of sh0 xor sh1
    mc_result     \* helper -> its share returned by convert_bit

mcVars == <<mc_phase, mc_key, mc_bit, mc_input, mc_triple, mc_xor1, mc_result>>

\* The Switch of the in-memory transport (routing.rs)
VARIABLES
    sw_state,     \* Switch.state: "Idle", "Preparing", "Listening"
    sw_peers,     \* the peers of State::Idle, then the `peers` taken by listen
    sw_pc,        \* "ready", or "listen" while listen is between its two writes
    sw_outcome,   \* how the last call ended: "none", "ok" or the panic message
    sw_task,      \* the loop spawned by listen: "none", "running", "ended"
    sw_calls      \* calls made so far

swVars == <<sw_state, sw_peers, sw_pc, sw_outcome, sw_task, sw_calls>>

\* The SendBuffer on its own (buffers.rs)
VARIABLES
    sb_made,      \* SendBuffer::new has run
    sb_max,       \* SendBuffer.max_capacity
    sb_inner,     \* SendBuffer.inner: ChannelId -> Vec<MessageEnvelope>
    sb_ret,       \* what the last call returned
    sb_pushed,    \* per channel, the envelopes pushed so far, in order
    sb_emitted,   \* per channel, the envelopes returned so far, in order
    sb_n          \* pushes made so far

sbVars == <<sb_made, sb_max, sb_inner, sb_ret, sb_pushed, sb_emitted, sb_n>>

\* The loop of the Switch and its QueryCommandRouter (routing.rs)
VARIABLES
    qr_loop,      \* where the loop is: "select", "route", "panicked", "ended"
    qr_panic,     \* the panic message of the loop
    qr_cmd,       \* the SwitchCommand channel, of capacity 1
    qr_halted,    \* Switch::halt has been called
    qr_routes,    \* QueryCommandRouter.routes: QueryId -> the stream of a call
    qr_call,      \* query_stream calls: where each is, and its query id
    qr_ack,       \* the ack oneshot of each call: "none", "sent", "dropped"
    qr_stream,    \* the envelopes in the mpsc channel of each call's stream
    qr_got,       \* the envelopes each subscriber has taken from its stream
    qr_links,     \* per peer, the commands in its link
    qr_sent,      \* per peer, the query ids of the events it has sent, in order
    qr_pending    \* the envelope route is sending while it waits for room

qrVars == <<qr_loop, qr_panic, qr_cmd, qr_halted, qr_routes, qr_call, qr_ack,
            qr_stream, qr_got, qr_links, qr_sent, qr_pending>>


\* The HPKE info of a match key encryption (hpke/info.rs)
VARIABLES
    hp_pc,        \* "none", "made" (Info::new returned), "bytes" (into_bytes ran)
    hp_new,       \* what Info::new returned: <<"Ok", info>> or <<"Err", input>>
    hp_bytes      \* what into_bytes returned

hpVars == <<hp_pc, hp_new, hp_bytes>>


\* One call of convert_bit_list on one helper (convert_shares.rs)
VARIABLES
    cb_rows,      \* the rows of the call: its number of rows, -1 before the call
    cb_pc,        \* per row, where its convert_bit future is
    cb_issued,    \* the multiplications issued so far: row, step, record id
    cb_result     \* what the call returned: "none", "Ok", "Err"

cbVars == <<cb_rows, cb_pc, cb_issued, cb_result>>


\* what the actions of one part of the system leave alone
notSend == <<regVars, recvVars, gwVars, dzVars, mcVars, swVars, sbVars, qrVars, hpVars, cbVars>>
notRegistry == <<sendVars, recvVars, gwVars, dzVars, mcVars, swVars, sbVars, qrVars, hpVars, cbVars>>
notRecv == <<sendVars, regVars, gwVars, dzVars, mcVars, swVars, sbVars, qrVars, hpVars, cbVars>>
notGateway == <<sendVars, regVars, dzVars, mcVars, swVars, sbVars, qrVars, hpVars, cbVars>>
notDzkp == <<sendVars, regVars, recvVars, gwVars, mcVars, swVars, sbVars, qrVars, hpVars, cbVars>>
notConvert == <<sendVars, regVars, recvVars, gwVars, dzVars, swVars, sbVars, qrVars, hpVars, cbVars>>
notSwitch == <<sendVars, regVars, recvVars, gwVars, dzVars, mcVars, sbVars, qrVars, hpVars, cbVars>>
notSendBuffer == <<sendVars, regVars, recvVars, gwVars, dzVars, mcVars, swVars, qrVars, hpVars, cbVars>>
notRouter == <<sendVars, regVars, recvVars, gwVars, dzVars, mcVars, sbVars, hpVars, cbVars>>
notInfo == <<sendVars, regVars, recvVars, gwVars, dzVars, mcVars, swVars, sbVars, qrVars, cbVars>>
notConvertList == <<sendVars, regVars, recvVars, gwVars, dzVars, mcVars, swVars, sbVars, qrVars, hpVars>>

vars == <<sendVars, regVars, recvVars, gwVars, dzVars, mcVars, swVars, sbVars, qrVars, hpVars, cbVars>>

InitSend ==
    /\ created = FALSE
    /\ streams = 0
    /\ total_records = Unspecified
    /\ capacity_bytes = 0
    /\ buf = <<>>
    /\ w = 0
    /\ slots = {}
    /\ closed_at = -1
    /\ write_ready = {}
    /\ stream_ready = FALSE
    /\ pc = [i \in RecordIds |-> "idle"]
    /\ msg = [i \in RecordIds |-> 0]
    /\ result = [i \in RecordIds |-> NoResult]
    /\ RECORDS_SENT = 0
    /\ BYTES_SENT = 0
    /\ written = {}
    /\ streamed = <<>>
    /\ eos = 0
    /\ reordered = FALSE

(***************************************************************************)
(* GatewaySenders::get_or_create, vacant entry.                            *)
(***************************************************************************)
\* bits of usize in the model
UsizeBits == 4

\* usize::MAX
UsizeMax == 2 ^ UsizeBits - 1

\* NonZeroUsize::checked_mul: the product, or None (0, which no NonZeroUsize
\* is) when it does not fit usize
checked_mul(a, b) == IF a * b <= UsizeMax THEN a * b ELSE 0

\* write_size with a multiplication that wraps around
WriteSizeWrapping(total, capacity) ==
    IF is_indeterminate(total) THEN MsgSize
    ELSE (capacity * MsgSize) % (UsizeMax + 1)

\* write_size for a channel that is Indeterminate regardless of `capacity`
WriteSizeNoTrick(total, capacity) == capacity * MsgSize

\* write_size in elements instead of bytes
WriteSizeElements(total, capacity) ==
    IF is_indeterminate(total) THEN MsgSize ELSE capacity

\* write_size: one message when indeterminate, capacity * M::Size otherwise
\* (0: the multiplication overflowed)
WriteSize(total, capacity) ==
    IF is_indeterminate(total) THEN MsgSize ELSE checked_mul(capacity, MsgSize)

\* Entry::Vacant: build the OrderingSender, insert, return Some(stream)
CreateChannel(capacity, total) ==
    /\ ~created
    /\ created' = TRUE
    /\ streams' = streams + 1
    /\ total_records' = total
    /\ capacity_bytes' = WriteSize(total, capacity)
    /\ buf' = [o \in 0..(WriteSize(total, capacity) - 1) |-> 0]
    /\ UNCHANGED <<w, slots, closed_at, write_ready, stream_ready>>
    /\ UNCHANGED <<callVars, metricVars, histVars>>
    /\ UNCHANGED notSend

(***************************************************************************)
(* OrderingSender (ring, window, close, take_next).                        *)
(***************************************************************************)
\* the window is full for record i
WindowFull(i) == i * MsgSize - w >= capacity_bytes

\* ring after the bytes of record i are placed at offset i*S mod capacity
RingWrite(i, bytes) ==
    [o \in DOMAIN buf |->
        IF \E k \in 1..MsgSize : (i * MsgSize + k - 1) % capacity_bytes = o
        THEN bytes[CHOOSE k \in 1..MsgSize :
                       (i * MsgSize + k - 1) % capacity_bytes = o]
        ELSE buf[o]]

RECURSIVE Contiguous(_)
\* number of committed records in a row starting at record i
Contiguous(i) == IF i \in slots THEN 1 + Contiguous(i + 1) ELSE 0

\* nbytes bytes of the ring starting at cursor `from`
RingRead(from, nbytes) ==
    [k \in 1..nbytes |-> buf[(from + k - 1) % capacity_bytes]]

(***************************************************************************)
(* SendingEnd::send / GatewaySender::send, one call per record id.         *)
(***************************************************************************)
\* the bound check accepts record_id = count
ExceedsTotalOffByOne(total, i) == total.kind = "Specified" /\ i > total.n

\* record_id >= count for Specified(count)
ExceedsTotal(total, i) == total.kind = "Specified" /\ i >= total.n

\* the call starts: the TooManyRecords check of GatewaySender::send
SendCall(i, m) ==
    /\ created
    /\ pc[i] = "idle"
    /\ IF ExceedsTotal(total_records, i)
       THEN /\ result' = [result EXCEPT ![i] = TooManyRecords(i, total_records)]
            /\ pc' = [pc EXCEPT ![i] = "metrics"]
            /\ UNCHANGED msg
       ELSE /\ msg' = [msg EXCEPT ![i] = m]
            /\ pc' = [pc EXCEPT ![i] = "write"]
            /\ UNCHANGED result
    /\ UNCHANGED <<chanVars, osVars, metricVars, histVars>>
    /\ UNCHANGED notSend

\* the channel is closed after every record
ShouldCloseAlways(i) == TRUE

\* the channel is closed one record early
ShouldClosePenultimate(i) ==
    total_records.kind = "Specified" /\ i = total_records.n - 2

\* `if self.total_records.is_last(record_id)`
ShouldClose(i) == is_last(total_records, i)

\* the record index is the arrival position, as on a plain FIFO channel
RecordIndexFifo(i) == Cardinality(written)

\* `let i = usize::from(record_id)`
RecordIndex(i) == i

\* `self.ordering_tx.send(i, msg).await`: one poll of the send future; a
\* record that is not the last returns Ok(()) at once
OrderingSend(i) ==
    /\ pc[i] = "write"
    /\ LET r == RecordIndex(i) IN
       IF WindowFull(r)
       THEN /\ write_ready' = write_ready \cup {i}
            /\ pc' = [pc EXCEPT ![i] = "suspended"]
            /\ UNCHANGED <<buf, w, slots, closed_at, stream_ready, result>>
            /\ UNCHANGED histVars
       ELSE /\ buf' = RingWrite(r, Serialize(msg[i]))
            /\ slots' = slots \cup {r}
            /\ stream_ready' = FALSE
            /\ written' = written \cup {r}
            /\ reordered' = (reordered \/ \E j \in 0..(r - 1) : j \notin written)
            /\ pc' = [pc EXCEPT ![i] = IF ShouldClose(i) THEN "close" ELSE "metrics"]
            /\ result' = [result EXCEPT ![i] = IF ShouldClose(i) THEN @ ELSE Ok]
            /\ UNCHANGED <<w, closed_at, write_ready, streamed, eos>>
    /\ UNCHANGED <<chanVars, msg, metricVars>>
    /\ UNCHANGED notSend

\* `self.ordering_tx.close(i + 1).await`, then Ok(()). close(k) is awaited: it
\* takes effect once every record below k is committed, so that no write
\* follows it
OrderingClose(i) ==
    /\ pc[i] = "close"
    /\ \A j \in 0..RecordIndex(i) : j \in written
    /\ closed_at' = RecordIndex(i) + 1
    /\ stream_ready' = FALSE
    /\ result' = [result EXCEPT ![i] = Ok]
    /\ pc' = [pc EXCEPT ![i] = "metrics"]
    /\ UNCHANGED <<buf, w, slots, write_ready>>
    /\ UNCHANGED <<chanVars, msg, metricVars, histVars>>
    /\ UNCHANGED notSend

\* SendingEnd::send after `self.inner.send(..).await`: the two counters, then r
SendMetrics(i) ==
    /\ pc[i] = "metrics"
    /\ RECORDS_SENT' = RECORDS_SENT + 1
    /\ BYTES_SENT' = BYTES_SENT + MsgSize
    /\ pc' = [pc EXCEPT ![i] = "done"]
    /\ UNCHANGED <<chanVars, osVars, msg, result, histVars>>
    /\ UNCHANGED notSend

(***************************************************************************)
(* GatewaySendStream::poll_next = OrderingSender::take_next.               *)
(***************************************************************************)
PollNext ==
    /\ created
    /\ ~stream_ready
    /\ eos = 0
    /\ LET n == Contiguous(w \div MsgSize) IN
       IF n > 0
       THEN /\ streamed' = streamed \o RingRead(w, n * MsgSize)
            /\ w' = w + n * MsgSize
            /\ slots' = slots \ ((w \div MsgSize)..(w \div MsgSize + n - 1))
            /\ write_ready' = {}
            /\ pc' = [i \in RecordIds |->
                        IF i \in write_ready THEN "write" ELSE pc[i]]
            /\ UNCHANGED <<buf, closed_at, stream_ready, written, eos, reordered>>
       ELSE IF closed_at >= 0 /\ w >= closed_at * MsgSize
       THEN /\ eos' = eos + 1
            /\ UNCHANGED <<osVars, pc, written, streamed, reordered>>
       ELSE /\ stream_ready' = TRUE
            /\ UNCHANGED <<buf, w, slots, closed_at, write_ready, pc>>
            /\ UNCHANGED histVars
    /\ UNCHANGED <<chanVars, msg, result, metricVars>>
    /\ UNCHANGED notSend

NextSend ==
    \/ \E c \in 1..MaxCapacity, t \in ChannelTotals : CreateChannel(c, t)
    \/ \E i \in RecordIds, m \in Msgs : SendCall(i, m)
    \/ \E i \in RecordIds : OrderingSend(i)
    \/ \E i \in RecordIds : OrderingClose(i)
    \/ \E i \in RecordIds : SendMetrics(i)
    \/ PollNext

(***************************************************************************)
(* GatewaySenders: the registry under concurrent get_or_create calls.      *)
(***************************************************************************)
\* number of concurrent get_or_create callers
NumCallers == 3

Callers == 1..NumCallers
\* ChannelId = (peer role, gate)
Channels == {<<"H2", "gate">>, <<"H3", "gate">>}
\* total_records arguments the callers pass
CallTotals == {Unspecified, Indeterminate, Specified(2)}
\* the capacities caller p may pass: p elements, or the largest NonZeroUsize
CallCapacities(p) == {p, UsizeMax}
\* `.expect("capacity should not overflow")`
CapacityOverflow == "capacity should not overflow"
NoArgs == [channel_id |-> <<"", "">>, capacity |-> 0, total_records |-> Unspecified]
NoReturn == [sender |-> 0, stream |-> FALSE]

InitRegistry ==
    /\ inner = [c \in Channels |-> 0]
    /\ senders = <<>>
    /\ shard_lock = [c \in Channels |-> 0]
    /\ reg_pc = [p \in Callers |-> "idle"]
    /\ reg_args = [p \in Callers |-> NoArgs]
    /\ reg_ret = [p \in Callers |-> NoReturn]

\* the assertion is compiled out
AssertSpecifiedSkipped(total) == TRUE

\* `assert!(total_records.is_specified(), "unspecified total records for ..")`
AssertSpecified(total) == is_specified(total)

\* the call and its assertion, which comes before the registry is touched
GetOrCreateCall(p, c, capacity, total) ==
    /\ reg_pc[p] = "idle"
    /\ reg_args' = [reg_args EXCEPT ![p] =
                       [channel_id |-> c, capacity |-> capacity,
                        total_records |-> total]]
    /\ reg_pc' = [reg_pc EXCEPT ![p] =
                     IF AssertSpecified(total) THEN "entry" ELSE "panicked"]
    /\ UNCHANGED <<inner, senders, shard_lock, reg_ret>>
    /\ UNCHANGED notRegistry

\* the entry is looked up without holding the shard lock
GetOrCreateEntryUnlocked(p) ==
    /\ reg_pc[p] = "entry"
    /\ shard_lock' = [shard_lock EXCEPT ![reg_args[p].channel_id] = p]
    /\ reg_pc' = [reg_pc EXCEPT ![p] =
                     IF inner[reg_args[p].channel_id] # 0
                     THEN "occupied" ELSE "vacant"]
    /\ UNCHANGED <<inner, senders, reg_args, reg_ret>>
    /\ UNCHANGED notRegistry

\* `self.inner.entry(channel_id.clone())`: takes the shard's write lock and
\* finds the entry occupied or vacant
GetOrCreateEntry(p) ==
    /\ reg_pc[p] = "entry"
    /\ shard_lock[reg_args[p].channel_id] = 0
    /\ shard_lock' = [shard_lock EXCEPT ![reg_args[p].channel_id] = p]
    /\ reg_pc' = [reg_pc EXCEPT ![p] =
                     IF inner[reg_args[p].channel_id] # 0
                     THEN "occupied" ELSE "vacant"]
    /\ UNCHANGED <<inner, senders, reg_args, reg_ret>>
    /\ UNCHANGED notRegistry

\* Entry::Occupied: the existing sender and no stream; the entry is released
GetOrCreateOccupied(p) ==
    /\ reg_pc[p] = "occupied"
    /\ reg_ret' = [reg_ret EXCEPT ![p] =
                      [sender |-> inner[reg_args[p].channel_id], stream |-> FALSE]]
    /\ shard_lock' = [shard_lock EXCEPT ![reg_args[p].channel_id] = 0]
    /\ reg_pc' = [reg_pc EXCEPT ![p] = "returned"]
    /\ UNCHANGED <<inner, senders, reg_args>>
    /\ UNCHANGED notRegistry

\* Entry::Vacant, write_size overflows: the call panics with the entry still
\* vacant; unwinding releases the entry
GetOrCreateOverflow(p) ==
    /\ reg_pc[p] = "vacant"
    /\ WriteSize(reg_args[p].total_records, reg_args[p].capacity) = 0
    /\ shard_lock' = [shard_lock EXCEPT ![reg_args[p].channel_id] = 0]
    /\ reg_pc' = [reg_pc EXCEPT ![p] = CapacityOverflow]
    /\ UNCHANGED <<inner, senders, reg_args, reg_ret>>
    /\ UNCHANGED notRegistry

\* Entry::Vacant: a new GatewaySender is built and inserted, and returned with
\* its stream; the entry is released
GetOrCreateVacant(p) ==
    /\ reg_pc[p] = "vacant"
    /\ WriteSize(reg_args[p].total_records, reg_args[p].capacity) # 0
    /\ senders' = Append(senders,
                     [channel_id |-> reg_args[p].channel_id,
                      total_records |-> reg_args[p].total_records,
                      write_size |-> WriteSize(reg_args[p].total_records,
                                               reg_args[p].capacity),
                      spare |-> 0])
    /\ inner' = [inner EXCEPT ![reg_args[p].channel_id] = Len(senders) + 1]
    /\ reg_ret' = [reg_ret EXCEPT ![p] =
                      [sender |-> Len(senders) + 1, stream |-> TRUE]]
    /\ shard_lock' = [shard_lock EXCEPT ![reg_args[p].channel_id] = 0]
    /\ reg_pc' = [reg_pc EXCEPT ![p] = "returned"]
    /\ UNCHANGED reg_args
    /\ UNCHANGED notRegistry

NextRegistry ==
    \/ \E p \in Callers, c \in Channels, t \in CallTotals :
          \E capacity \in CallCapacities(p) : GetOrCreateCall(p, c, capacity, t)
    \/ \E p \in Callers : GetOrCreateEntry(p)
    \/ \E p \in Callers : GetOrCreateOccupied(p)
    \/ \E p \in Callers : GetOrCreateVacant(p)
    \/ \E p \in Callers : GetOrCreateOverflow(p)

(***************************************************************************)
(* ReceiveBuffer and the one-shot channels of the receive requests.        *)
(***************************************************************************)
\* receive requests made in a run
MaxRequests == 2
\* message envelopes received in a run
MaxMessages == 2
\* envelopes in one receive_messages call
MaxBatch == 2
\* record ids used on the receive side
RbRecords == {0, 1}
Vacant == <<"Vacant">>
Requested(o) == <<"Requested", o>>
Received(payload) == <<"Received", payload>>
NoPanic == <<>>
MoreThanOneRequest(r) == <<"More than one request to receive a message for", r>>
DuplicateMessage(r) == <<"Duplicate message for the same record", r>>

InitRecv ==
    /\ rb_inner = <<>>
    /\ oneshots = <<>>
    /\ rb_panic = NoPanic
    /\ rb_arrived = <<>>

\* the buffer is a queue per channel: the item of the lowest record present
EntryLowestRecord(in, c, r) ==
    IF c \in DOMAIN in /\ DOMAIN in[c] # {}
    THEN in[c][CHOOSE x \in DOMAIN in[c] : \A y \in DOMAIN in[c] : x <= y]
    ELSE Vacant

\* the item at (channel, record), Vacant when there is none
Entry(in, c, r) ==
    IF c \in DOMAIN in /\ r \in DOMAIN in[c] THEN in[c][r] ELSE Vacant

\* `.entry(channel_id).or_default()`: an empty map for a new channel
OrDefault(in, c) ==
    IF c \in DOMAIN in THEN in
    ELSE [x \in DOMAIN in \cup {c} |-> IF x = c THEN <<>> ELSE in[x]]

\* `entry.insert(item)` on the vacant entry of (c, r)
Insert(in, c, r, item) ==
    [in EXCEPT ![c] = [x \in DOMAIN in[c] \cup {r} |->
                          IF x = r THEN item ELSE in[c][x]]]

\* the removal takes every record of the channel with it
RemoveChannel(in, c, r) == [in EXCEPT ![c] = <<>>]

\* `entry.remove()` on the occupied entry of (c, r)
Remove(in, c, r) ==
    [in EXCEPT ![c] = [x \in DOMAIN in[c] \ {r} |-> in[c][x]]]

\* oneshot::Sender::send: the value reaches a live receiver, else Err
OneshotSend(os, o, payload, by) ==
    IF os[o].rx_alive
    THEN [os EXCEPT ![o].got = Append(@, payload), ![o].tx = "sent", ![o].by = by]
    ELSE [os EXCEPT ![o].tx = "failed", ![o].by = by]

\* a oneshot::Sender dropped without sending
OneshotDrop(os, o) == [os EXCEPT ![o].tx = "dropped"]

\* a second request silently replaces the first
RequestArmOverwrite(item) ==
    CASE item[1] = "Vacant" -> "insert"
      [] item[1] = "Requested" -> "insert"
      [] item[1] = "Received" -> "deliver"

\* the match of receive_request on the entry
RequestArm(item) ==
    CASE item[1] = "Vacant" -> "insert"
      [] item[1] = "Requested" -> "panic"
      [] item[1] = "Received" -> "deliver"

\* ReceiveBuffer::receive_request(channel_id, record_id, sender)
receive_request(st, c, r, o) ==
    LET in1 == OrDefault(st.inner, c)
        item == Entry(in1, c, r)
        arm == RequestArm(item)
    IN  CASE arm = "insert" ->
               [st EXCEPT !.inner = Insert(in1, c, r, Requested(o))]
          [] arm = "deliver" ->
               [st EXCEPT !.inner = Remove(in1, c, r),
                          !.oneshots = OneshotSend(@, o, item[2], "receive_request")]
          [] arm = "panic" ->
               [inner |-> Remove(in1, c, r),
                oneshots |-> OneshotDrop(OneshotDrop(st.oneshots, item[2]), o),
                panic |-> MoreThanOneRequest(r)]

\* an arriving payload replaces the pending request instead of fulfilling it
MessageArmOverwrite(item) ==
    CASE item[1] = "Vacant" -> "insert"
      [] item[1] = "Requested" -> "insert"
      [] item[1] = "Received" -> "panic"

\* the match of receive_messages on the entry
MessageArm(item) ==
    CASE item[1] = "Vacant" -> "insert"
      [] item[1] = "Requested" -> "deliver"
      [] item[1] = "Received" -> "panic"

\* one iteration of the loop of receive_messages
receive_message(st, c, m) ==
    LET in1 == OrDefault(st.inner, c)
        item == Entry(in1, c, m.record_id)
        arm == MessageArm(item)
    IN  CASE arm = "insert" ->
               [st EXCEPT !.inner = Insert(in1, c, m.record_id, Received(m.payload))]
          [] arm = "deliver" ->
               [st EXCEPT !.inner = Remove(in1, c, m.record_id),
                          !.oneshots = OneshotSend(@, item[2], m.payload,
                                                   "receive_messages")]
          [] arm = "panic" ->
               [st EXCEPT !.inner = Remove(in1, c, m.record_id),
                          !.panic = DuplicateMessage(m.record_id)]

RECURSIVE receive_messages(_, _, _)
\* ReceiveBuffer::receive_messages(channel_id, messages): the loop ends with
\* the first panic
receive_messages(st, c, messages) ==
    IF messages = <<>> \/ st.panic # NoPanic THEN st
    ELSE receive_messages(receive_message(st, c, Head(messages)), c, Tail(messages))

\* Gateway::receive makes the oneshot and the loop hands it to receive_request
ReceiveRequest(c, r, alive) ==
    /\ rb_panic = NoPanic
    /\ Len(oneshots) < MaxRequests
    /\ LET o == Len(oneshots) + 1
           st == receive_request(
                    [inner |-> rb_inner,
                     oneshots |-> Append(oneshots,
                        [channel_id |-> c, record_id |-> r, rx_alive |-> alive,
                         tx |-> "held", got |-> <<>>, by |-> ""]),
                     panic |-> rb_panic], c, r, o)
       IN /\ rb_inner' = st.inner
          /\ oneshots' = st.oneshots
          /\ rb_panic' = st.panic
    /\ UNCHANGED rb_arrived
    /\ UNCHANGED notRecv

\* the envelopes of one frame: record ids chosen freely, payloads told apart
\* by their position in the run
Envelopes(records) ==
    [k \in 1..Len(records) |->
        [record_id |-> records[k], payload |-> 100 + Len(rb_arrived) + k]]

\* the loop hands a frame of the network stream to receive_messages
ReceiveMessages(c, records) ==
    /\ rb_panic = NoPanic
    /\ Len(rb_arrived) + Len(records) <= MaxMessages
    /\ LET messages == Envelopes(records)
           st == receive_messages(
                    [inner |-> rb_inner, oneshots |-> oneshots, panic |-> rb_panic],
                    c, messages)
       IN /\ rb_inner' = st.inner
          /\ oneshots' = st.oneshots
          /\ rb_panic' = st.panic
          /\ rb_arrived' = rb_arrived \o
                [k \in 1..Len(messages) |->
                    <<c, messages[k].record_id, messages[k].payload>>]
    /\ UNCHANGED notRecv

\* the task awaiting a receive is dropped before its payload came
DropAwaiter(o) ==
    /\ o \in 1..Len(oneshots)
    /\ oneshots[o].rx_alive
    /\ oneshots[o].tx = "held"
    /\ oneshots' = [oneshots EXCEPT ![o].rx_alive = FALSE]
    /\ UNCHANGED <<rb_inner, rb_panic, rb_arrived>>
    /\ UNCHANGED notRecv

NextRecv ==
    \/ \E c \in Channels, r \in RbRecords, alive \in BOOLEAN :
          ReceiveRequest(c, r, alive)
    \/ \E c \in Channels, n \in 1..MaxBatch :
          \E records \in [1..n -> RbRecords] : ReceiveMessages(c, records)
    \/ \E o \in 1..MaxRequests : DropAwaiter(o)

(***************************************************************************)
(* Gateway: Mesh::send, Mesh::receive, the event loop, join and drop.      *)
(***************************************************************************)
\* largest items_in_batch of the SendBufferConfig
MaxItemsInBatch == 2
\* frames of the network stream the peer keeps ahead of the loop
MaxNetFrames == 2
\* seconds that pass in one step of the clock
Tick == 5
\* `const INTERVAL: Duration = Duration::from_secs(10)`
INTERVAL == 10
\* size of MessagePayload in bytes (imported from crate::helpers)
MESSAGE_PAYLOAD_SIZE_BYTES == 8

\* the tasks that call Mesh::send, each one call after the other
SendTasks == {1, 2}
\* the tasks that call Mesh::receive, each one call after the other
RecvTasks == {1, 2}
\* the frames the peer sends: the records of their envelopes
GwFrames == {<<0>>, <<1>>, <<0, 1>>}
\* the step of the Mesh; a ChannelId is (role, step)
MeshStep == "gate"
\* message types T: SIZE_IN_BYTES, whether T::serialize succeeds, a value
Fp31 == [name |-> "Fp31", SIZE_IN_BYTES |-> 1, serialize_ok |-> TRUE, value |-> 7]
MsgTypes ==
    { Fp31,
      [name |-> "Wide", SIZE_IN_BYTES |-> MESSAGE_PAYLOAD_SIZE_BYTES + 1,
       serialize_ok |-> TRUE, value |-> 9],
      [name |-> "Failing", SIZE_IN_BYTES |-> 1, serialize_ok |-> FALSE, value |-> 3] }

SerializationError(record_id, step) == <<"SerializationError", record_id, step>>
ReceiveError(role) == <<"ReceiveError", role>>
\* the error `?` makes of the SendError of a closed request channel
ChannelClosed == <<"Err", "channel closed">>
OkPayload(payload) == <<"Ok", payload>>
NoLog == <<>>
NoFrame == <<>>
NoEnvelope == [record_id |-> 0, payload |-> <<>>, ty |-> ""]
IdleSend == [pc |-> "idle", channel_id |-> <<"", "">>, env |-> NoEnvelope,
             result |-> NoResult]
IdleRecv == [pc |-> "idle", result |-> NoResult]
BlankOneshot == [channel_id |-> <<"", "">>, record_id |-> 0, rx_alive |-> FALSE,
                 tx |-> "none", got |-> <<>>, by |-> ""]

InitGateway ==
    /\ gw_loop = "none"
    /\ gw_panic = NoPanic
    /\ gw_cfg = [debug_assertions |-> FALSE, items_in_batch |-> 0]
    /\ gw_handle = "none"
    /\ join_result = NoResult
    /\ recv_q = <<>>
    /\ send_q = <<>>
    /\ net_in = <<>>
    /\ net_open = TRUE
    /\ send_buf = <<>>
    /\ sink_pending = NoFrame
    /\ sink_out = {}
    /\ stask = [j \in SendTasks |-> IdleSend]
    /\ rtask = [k \in RecvTasks |-> IdleRecv]
    /\ gw_elapsed = 0
    /\ gw_waited = [k \in RecvTasks |-> 0]
    /\ gw_log = NoLog

\* the loop task is running (it has not panicked, been aborted or broken out)
LoopAlive == gw_loop \in {"select", "sink"}
LoopEnded == gw_loop \in {"panicked", "aborted", "broken"}
\* no task is inside a Mesh call, which borrows the Gateway
NoMeshCall ==
    /\ \A j \in SendTasks : stask[j].pc \in {"idle", "returned"}
    /\ \A k \in RecvTasks : rtask[k].pc \in {"idle", "returned"}

\* Gateway::new: the two request channels, the network ends, the loop task
GatewayNew(debug, items) ==
    /\ gw_handle = "none"
    /\ gw_handle' = "owned"
    /\ gw_loop' = "select"
    /\ gw_cfg' = [debug_assertions |-> debug, items_in_batch |-> items]
    /\ oneshots' = [k \in RecvTasks |-> BlankOneshot]
    /\ UNCHANGED <<gw_panic, join_result, recv_q, send_q, net_in, net_open,
                   send_buf, sink_pending, sink_out, stask, rtask, gw_elapsed,
                   gw_waited, gw_log>>
    /\ UNCHANGED <<rb_inner, rb_panic, rb_arrived>>
    /\ UNCHANGED notGateway

(***************************************************************************)
(* Mesh::send.                                                             *)
(***************************************************************************)
\* the size check is missing
ExceedsPayloadNever(ty) == FALSE

\* `T::SIZE_IN_BYTES as usize > MESSAGE_PAYLOAD_SIZE_BYTES`
ExceedsPayload(ty) == ty.SIZE_IN_BYTES > MESSAGE_PAYLOAD_SIZE_BYTES

\* `array_vec![0; MESSAGE_PAYLOAD_SIZE_BYTES]` with the message serialised
\* into its first SIZE_IN_BYTES bytes, little endian
RECURSIVE LittleEndianByte(_, _)
\* byte b (from 1) of the little-endian encoding of v
LittleEndianByte(v, b) ==
    IF b = 1 THEN v % 256 ELSE LittleEndianByte(v \div 256, b - 1)

MeshSerialize(ty) ==
    [b \in 1..MESSAGE_PAYLOAD_SIZE_BYTES |->
        IF b <= ty.SIZE_IN_BYTES THEN LittleEndianByte(ty.value, b) ELSE 0]

\* Mesh::send up to the call of Gateway::send
MeshSend(j, dest, record_id, ty) ==
    /\ gw_handle = "owned"
    /\ stask[j].pc \in {"idle", "returned"}
    /\ stask' = [stask EXCEPT ![j] =
          IF ExceedsPayload(ty) \/ ~ty.serialize_ok
          THEN [pc |-> "returned", channel_id |-> <<dest, MeshStep>>,
                env |-> [NoEnvelope EXCEPT !.record_id = record_id, !.ty = ty.name],
                result |-> SerializationError(record_id, MeshStep)]
          ELSE [pc |-> "sending", channel_id |-> <<dest, MeshStep>>,
                env |-> [record_id |-> record_id, payload |-> MeshSerialize(ty),
                         ty |-> ty.name],
                result |-> NoResult]]
    /\ UNCHANGED <<gw_loop, gw_panic, gw_cfg, gw_handle, join_result, recv_q,
                   send_q, net_in, net_open, send_buf, sink_pending, sink_out,
                   rtask, gw_elapsed, gw_waited, gw_log>>
    /\ UNCHANGED recvVars
    /\ UNCHANGED notGateway

\* Gateway::send: `self.envelope_tx.send((id, env)).await?`, one poll that
\* completes; the call suspends while the channel is full
GatewaySend(j) ==
    /\ stask[j].pc = "sending"
    /\ IF LoopEnded
       THEN /\ stask' = [stask EXCEPT ![j].pc = "returned",
                                      ![j].result = ChannelClosed]
            /\ UNCHANGED send_q
       ELSE /\ Len(send_q) < 1
            /\ send_q' = Append(send_q, [channel_id |-> stask[j].channel_id,
                                         env |-> stask[j].env])
            /\ stask' = [stask EXCEPT ![j].pc = "returned", ![j].result = Ok]
    /\ UNCHANGED <<gw_loop, gw_panic, gw_cfg, gw_handle, join_result, recv_q,
                   net_in, net_open, send_buf, sink_pending, sink_out,
                   rtask, gw_elapsed, gw_waited, gw_log>>
    /\ UNCHANGED recvVars
    /\ UNCHANGED notGateway

(***************************************************************************)
(* Mesh::receive.                                                          *)
(***************************************************************************)
\* Gateway::receive up to `self.tx.send(..)`: the oneshot channel is made
MeshReceive(k, source, record_id) ==
    /\ gw_handle = "owned"
    /\ rtask[k].pc \in {"idle", "returned"}
    /\ rtask' = [rtask EXCEPT ![k] = [pc |-> "sending", result |-> NoResult]]
    /\ oneshots' = [oneshots EXCEPT ![k] =
          [channel_id |-> <<source, MeshStep>>, record_id |-> record_id,
           rx_alive |-> TRUE, tx |-> "held", got |-> <<>>, by |-> ""]]
    /\ gw_waited' = [gw_waited EXCEPT ![k] = 0]
    /\ UNCHANGED <<gw_loop, gw_panic, gw_cfg, gw_handle, join_result, recv_q,
                   send_q, net_in, net_open, send_buf, sink_pending, sink_out,
                   stask, gw_elapsed, gw_log>>
    /\ UNCHANGED <<rb_inner, rb_panic, rb_arrived>>
    /\ UNCHANGED notGateway

\* `self.tx.send(ReceiveRequest {..}).await?`: on a closed channel the request
\* comes back in the error and is dropped with its oneshot sender
GatewayReceiveSend(k) ==
    /\ rtask[k].pc = "sending"
    /\ IF LoopEnded
       THEN /\ rtask' = [rtask EXCEPT ![k] =
                            [pc |-> "returned", result |-> ChannelClosed]]
            /\ oneshots' = OneshotDrop(oneshots, k)
            /\ UNCHANGED recv_q
       ELSE /\ Len(recv_q) < 1
            /\ recv_q' = Append(recv_q, k)
            /\ rtask' = [rtask EXCEPT ![k].pc = "awaiting"]
            /\ UNCHANGED oneshots
    /\ UNCHANGED <<gw_loop, gw_panic, gw_cfg, gw_handle, join_result,
                   send_q, net_in, net_open, send_buf, sink_pending, sink_out,
                   stask, gw_elapsed, gw_waited, gw_log>>
    /\ UNCHANGED <<rb_inner, rb_panic, rb_arrived>>
    /\ UNCHANGED notGateway

\* the error names the task's own step instead of the peer
RecvAwaitResultNoRole(o) ==
    IF o.tx = "sent" THEN OkPayload(o.got[1]) ELSE ReceiveError(o.channel_id[2])

\* `rx.await.map_err(|e| Error::receive_error(channel_id.role, e))`
RecvAwaitResult(o) ==
    IF o.tx = "sent" THEN OkPayload(o.got[1]) ELSE ReceiveError(o.channel_id[1])

\* the oneshot receiver resolves: a payload was sent or the sender is gone
GatewayReceiveAwait(k) ==
    /\ rtask[k].pc = "awaiting"
    /\ oneshots[k].tx \in {"sent", "dropped"}
    /\ rtask' = [rtask EXCEPT ![k] =
                    [pc |-> "returned", result |-> RecvAwaitResult(oneshots[k])]]
    /\ UNCHANGED <<gw_loop, gw_panic, gw_cfg, gw_handle, join_result, recv_q,
                   send_q, net_in, net_open, send_buf, sink_pending, sink_out,
                   stask, gw_elapsed, gw_waited, gw_log>>
    /\ UNCHANGED recvVars
    /\ UNCHANGED notGateway

(***************************************************************************)
(* SendBuffer as the loop uses it, and what print_state reads.             *)
(***************************************************************************)
\* the pending envelopes of a channel, none when the channel has no entry
PendingOf(sb, c) == IF c \in DOMAIN sb THEN sb[c] ELSE <<>>

\* the vector is handed out only once it holds more than max_capacity
SendBufferPushLate(sb, max_capacity, c, m) ==
    LET vec == Append(PendingOf(sb, c), m)
        full == Len(vec) > max_capacity
        kept == IF full THEN <<>> ELSE vec
    IN  [inner |-> [x \in DOMAIN sb \cup {c} |-> IF x = c THEN kept ELSE sb[x]],
         data |-> IF full THEN vec ELSE <<>>]

\* SendBuffer::push: the envelope is appended to the channel's vector; a
\* vector that has reached max_capacity is replaced by an empty one and returned
SendBufferPush(sb, max_capacity, c, m) ==
    LET vec == Append(PendingOf(sb, c), m)
        full == Len(vec) >= max_capacity
        kept == IF full THEN <<>> ELSE vec
    IN  [inner |-> [x \in DOMAIN sb \cup {c} |-> IF x = c THEN kept ELSE sb[x]],
         data |-> IF full THEN vec ELSE <<>>]

\* push returns Err for a record the channel already holds ("Record
\* RecordId(n) has been received twice")
PushError(sb, c, m) ==
    \E i \in 1..Len(PendingOf(sb, c)) : PendingOf(sb, c)[i].record_id = m.record_id

ReceivedTwice(r) == <<"failed to send: Record has been received twice", r>>
SinkFailed == <<"Failed to send data to the network">>

\* ReceiveBuffer::waiting: the receives requested and not yet matched
RecvWaiting(in) ==
    {<<c, r>> \in Channels \X RbRecords : Entry(in, c, r)[1] = "Requested"}

\* SendBuffer::waiting: the records held back per channel
SendWaiting(sb) ==
    {<<c, r>> \in Channels \X RbRecords :
        \E i \in 1..Len(PendingOf(sb, c)) : PendingOf(sb, c)[i].record_id = r}

\* the entry is written only when a send is waiting
print_stateSendsOnly(debug, sb, in) ==
    IF debug /\ SendWaiting(sb) # {}
    THEN [waiting_to_send |-> SendWaiting(sb),
          waiting_to_receive |-> RecvWaiting(in)]
    ELSE NoLog

\* print_state, compiled only with debug_assertions: one error-level entry
\* when a send or a receive is waiting
print_state(debug, sb, in) ==
    IF debug /\ (SendWaiting(sb) # {} \/ RecvWaiting(in) # {})
    THEN [waiting_to_send |-> SendWaiting(sb),
          waiting_to_receive |-> RecvWaiting(in)]
    ELSE NoLog

\* the receive tasks whose request waits in the receive buffer
RequestedTasks(in) ==
    {k \in RecvTasks : \E c \in Channels, r \in RbRecords :
                           Entry(in, c, r) = Requested(k)}

(***************************************************************************)
(* The event loop.                                                         *)
(***************************************************************************)
Branches == <<"recv", "stream", "send", "sleep">>

\* the future of the branch is ready
BranchReady(b) ==
    CASE b = "recv" -> recv_q # <<>>
      [] b = "stream" -> net_in # <<>>
      [] b = "send" -> send_q # <<>>
      [] b = "sleep" -> gw_elapsed >= INTERVAL

\* the branch is disabled in this select: its future yields a value that does
\* not match the pattern. `Some(..)` fails on None, `_` matches everything
BranchDisabled(b) ==
    CASE b = "recv" -> recv_q = <<>> /\ gw_handle = "dropped"
      [] b = "stream" -> net_in = <<>> /\ ~net_open
      [] b = "send" -> send_q = <<>> /\ gw_handle = "dropped"
      [] b = "sleep" -> FALSE

\* `biased;`: the branches are polled in the order they are written
SelectableBiased(b) ==
    \A i \in 1..Len(Branches) :
        (\E j \in (i + 1)..Len(Branches) : Branches[j] = b) => ~BranchReady(Branches[i])

\* tokio::select! without `biased;` picks among the ready branches at random
Selectable(b) == TRUE

\* the locals of the loop task are dropped when it ends: the oneshot senders
\* in the receive buffer and in the request channel go without a value
DropOwned(os, in, q) ==
    [o \in DOMAIN os |->
        IF os[o].tx = "held"
           /\ (o \in RequestedTasks(in) \/ \E i \in 1..Len(q) : q[i] = o)
        THEN [os[o] EXCEPT !.tx = "dropped"] ELSE os[o]]

\* the loop task ends (panic or abort) holding buffer `in`, oneshots `os` and
\* request queue `q`
EndLoop(how, panic, in, os, q) ==
    /\ gw_loop' = how
    /\ gw_panic' = panic
    /\ rb_panic' = panic
    /\ oneshots' = DropOwned(os, in, q)
    /\ rb_inner' = <<>>
    /\ send_buf' = <<>>
    /\ recv_q' = <<>>
    /\ send_q' = <<>>
    /\ net_in' = <<>>
    /\ sink_pending' = NoFrame
    /\ gw_elapsed' = 0
    /\ gw_log' = NoLog

\* `Some(receive_request) = recv_rx.recv()` and the timer reset
LoopReceiveRequest ==
    /\ gw_loop = "select"
    /\ BranchReady("recv") /\ Selectable("recv")
    /\ LET k == Head(recv_q)
           st == receive_request(
                    [inner |-> rb_inner, oneshots |-> oneshots, panic |-> NoPanic],
                    oneshots[k].channel_id, oneshots[k].record_id, k)
       IN IF st.panic # NoPanic
          THEN EndLoop("panicked", st.panic, st.inner, st.oneshots, Tail(recv_q))
          ELSE /\ rb_inner' = st.inner
               /\ oneshots' = st.oneshots
               /\ recv_q' = Tail(recv_q)
               /\ gw_elapsed' = 0
               /\ gw_log' = NoLog
               /\ UNCHANGED <<gw_loop, gw_panic, rb_panic, send_buf, send_q,
                              net_in, sink_pending>>
    /\ UNCHANGED <<gw_cfg, gw_handle, join_result, net_open, sink_out, stask,
                   rtask, gw_waited, rb_arrived>>
    /\ UNCHANGED notGateway

\* `Some((channel_id, messages)) = message_stream.next()` and the timer reset
LoopReceiveMessages ==
    /\ gw_loop = "select"
    /\ BranchReady("stream") /\ Selectable("stream")
    /\ LET frame == Head(net_in)
           st == receive_messages(
                    [inner |-> rb_inner, oneshots |-> oneshots, panic |-> NoPanic],
                    frame.channel_id, frame.messages)
       IN IF st.panic # NoPanic
          THEN EndLoop("panicked", st.panic, st.inner, st.oneshots, recv_q)
          ELSE /\ rb_inner' = st.inner
               /\ oneshots' = st.oneshots
               /\ net_in' = Tail(net_in)
               /\ gw_elapsed' = 0
               /\ gw_log' = NoLog
               /\ UNCHANGED <<gw_loop, gw_panic, rb_panic, send_buf, send_q,
                              recv_q, sink_pending>>
    /\ UNCHANGED <<gw_cfg, gw_handle, join_result, net_open, sink_out, stask,
                   rtask, gw_waited, rb_arrived>>
    /\ UNCHANGED notGateway

\* `Some(send_req) = send_rx.recv()`: send_message up to `sink.send(..).await`
LoopSendMessage ==
    /\ gw_loop = "select"
    /\ BranchReady("send") /\ Selectable("send")
    /\ LET req == Head(send_q)
           pushed == SendBufferPush(send_buf, gw_cfg.items_in_batch,
                                    req.channel_id, req.env)
       IN IF PushError(send_buf, req.channel_id, req.env)
          THEN EndLoop("panicked", ReceivedTwice(req.env.record_id),
                       rb_inner, oneshots, recv_q)
          ELSE /\ send_buf' = pushed.inner
               /\ send_q' = Tail(send_q)
               /\ IF pushed.data # <<>>
                  THEN /\ gw_loop' = "sink"
                       /\ sink_pending' = [channel_id |-> req.channel_id,
                                           buf_to_send |-> pushed.data]
                       /\ UNCHANGED gw_elapsed
                  ELSE /\ gw_elapsed' = 0
                       /\ UNCHANGED <<gw_loop, sink_pending>>
               /\ gw_log' = NoLog
               /\ UNCHANGED <<gw_panic, rb_panic, rb_inner, oneshots, recv_q, net_in>>
    /\ UNCHANGED <<gw_cfg, gw_handle, join_result, net_open, sink_out, stask,
                   rtask, gw_waited, rb_arrived>>
    /\ UNCHANGED notGateway

\* `sink.send((channel_id, buf_to_send)).await.expect(..)` completes, then the
\* timer reset
SinkResult(ok) ==
    /\ gw_loop = "sink"
    /\ IF ok
       THEN /\ sink_out' = sink_out \cup
                   {<<sink_pending.channel_id, sink_pending.buf_to_send[i].record_id,
                      sink_pending.buf_to_send[i].ty>> :
                        i \in 1..Len(sink_pending.buf_to_send)}
            /\ gw_loop' = "select"
            /\ sink_pending' = NoFrame
            /\ gw_elapsed' = 0
            /\ UNCHANGED <<gw_panic, rb_panic, rb_inner, oneshots, send_buf,
                           recv_q, send_q, net_in, gw_log>>
       ELSE /\ EndLoop("panicked", SinkFailed, rb_inner, oneshots, recv_q)
            /\ UNCHANGED sink_out
    /\ UNCHANGED <<gw_cfg, gw_handle, join_result, net_open, stask,
                   rtask, gw_waited, rb_arrived>>
    /\ UNCHANGED notGateway

\* the select completes without a request or a frame: `_ = &mut sleep` runs
\* print_state and the timer is reset; `else` runs when every branch is
\* disabled, and breaks
LoopSleepOrElse ==
    /\ gw_loop = "select"
    /\ IF \A i \in 1..Len(Branches) : BranchDisabled(Branches[i])
       THEN /\ gw_loop' = "broken"
            /\ UNCHANGED <<gw_elapsed, gw_log, gw_waited>>
       ELSE /\ BranchReady("sleep") /\ Selectable("sleep")
            /\ gw_log' = print_state(gw_cfg.debug_assertions, send_buf, rb_inner)
            /\ gw_waited' = [k \in RecvTasks |->
                  IF gw_log' # NoLog /\ k \in RequestedTasks(rb_inner)
                  THEN 0 ELSE gw_waited[k]]
            /\ gw_elapsed' = 0
            /\ UNCHANGED gw_loop
    /\ UNCHANGED <<gw_panic, gw_cfg, gw_handle, join_result, recv_q, send_q,
                   net_in, net_open, send_buf, sink_pending, sink_out, stask,
                   rtask>>
    /\ UNCHANGED recvVars
    /\ UNCHANGED notGateway

\* time passes while the loop is parked in the select with nothing ready
TimePasses ==
    /\ gw_loop = "select"
    /\ \A i \in 1..Len(Branches) : ~BranchReady(Branches[i])
    /\ gw_elapsed' = gw_elapsed + Tick
    /\ gw_waited' = [k \in RecvTasks |->
          IF k \in RequestedTasks(rb_inner) /\ gw_waited[k] <= INTERVAL
          THEN gw_waited[k] + Tick ELSE gw_waited[k]]
    /\ UNCHANGED <<gw_loop, gw_panic, gw_cfg, gw_handle, join_result, recv_q,
                   send_q, net_in, net_open, send_buf, sink_pending, sink_out,
                   stask, rtask, gw_log>>
    /\ UNCHANGED recvVars
    /\ UNCHANGED notGateway

(***************************************************************************)
(* The network stream, Gateway::join and the drop of the Gateway.          *)
(***************************************************************************)
\* the payload the peer sent for record r
PeerPayload(r) == 200 + r

\* the peer's frame: envelopes for freely chosen records of one channel; the
\* peer keeps at most `inflight` frames ahead of the loop
NetFrame(c, records, inflight) ==
    /\ LoopAlive
    /\ net_open
    /\ Len(net_in) < inflight
    /\ net_in' = Append(net_in,
          [channel_id |-> c,
           messages |-> [i \in 1..Len(records) |->
                            [record_id |-> records[i],
                             payload |-> PeerPayload(records[i])]]])
    /\ UNCHANGED <<gw_loop, gw_panic, gw_cfg, gw_handle, join_result, recv_q,
                   send_q, net_open, send_buf, sink_pending, sink_out, stask,
                   rtask, gw_elapsed, gw_waited, gw_log>>
    /\ UNCHANGED recvVars
    /\ UNCHANGED notGateway

\* the peer disconnects: the stream ends after the frames already made
NetClose ==
    /\ gw_handle # "none"
    /\ net_open
    /\ net_open' = FALSE
    /\ UNCHANGED <<gw_loop, gw_panic, gw_cfg, gw_handle, join_result, recv_q,
                   send_q, net_in, send_buf, sink_pending, sink_out, stask,
                   rtask, gw_elapsed, gw_waited, gw_log>>
    /\ UNCHANGED recvVars
    /\ UNCHANGED notGateway

\* the Gateway is dropped: both request senders go; with the shuttle feature
\* Drop aborts the loop task, without it the task is detached
DropGateway(shuttle) ==
    /\ gw_handle = "owned"
    /\ NoMeshCall
    /\ gw_handle' = "dropped"
    /\ IF shuttle /\ LoopAlive
       THEN EndLoop("aborted", NoPanic, rb_inner, oneshots, recv_q)
       ELSE UNCHANGED <<gw_loop, gw_panic, rb_panic, oneshots, rb_inner, send_buf,
                        recv_q, send_q, net_in, sink_pending, gw_elapsed, gw_log>>
    /\ UNCHANGED <<gw_cfg, join_result, net_open, sink_out, stask, rtask,
                   gw_waited, rb_arrived>>
    /\ UNCHANGED notGateway

\* Gateway::join(self) is called: the Gateway moves into the call, which keeps
\* its request senders while it awaits the loop task
GatewayJoin ==
    /\ gw_handle = "owned"
    /\ NoMeshCall
    /\ gw_handle' = "joined"
    /\ UNCHANGED <<gw_loop, gw_panic, gw_cfg, join_result, recv_q, send_q,
                   net_in, net_open, send_buf, sink_pending, sink_out, stask,
                   rtask, gw_elapsed, gw_waited, gw_log>>
    /\ UNCHANGED recvVars
    /\ UNCHANGED notGateway

\* a JoinError that is a panic is taken for a cancellation
JoinOutcomeCancelled(loop, panic) ==
    CASE loop = "panicked" -> <<"panic", "Task cancelled">>
      [] loop = "aborted" -> <<"panic", "Task cancelled">>
      [] loop = "broken" -> <<"returned">>

\* what the `.await.map_err(..).unwrap()` of join does with the task's result
JoinOutcome(loop, panic) ==
    CASE loop = "panicked" -> <<"resume_unwind", panic>>
      [] loop = "aborted" -> <<"panic", "Task cancelled">>
      [] loop = "broken" -> <<"returned">>

\* `self.control_handle.await` resolves
GatewayJoinReturn ==
    /\ gw_handle = "joined"
    /\ LoopEnded
    /\ join_result = NoResult
    /\ join_result' = JoinOutcome(gw_loop, gw_panic)
    /\ UNCHANGED <<gw_loop, gw_panic, gw_cfg, gw_handle, recv_q, send_q,
                   net_in, net_open, send_buf, sink_pending, sink_out, stask,
                   rtask, gw_elapsed, gw_waited, gw_log>>
    /\ UNCHANGED recvVars
    /\ UNCHANGED notGateway

\* the peer the tasks of the model talk to
GwRoles == {"H2"}

\* the tasks that only send, with the loop, the sink, join and drop
NextMeshSend ==
    \/ \E items \in 1..MaxItemsInBatch : GatewayNew(FALSE, items)
    \/ \E j \in SendTasks, dest \in GwRoles, r \in RbRecords, ty \in MsgTypes :
          MeshSend(j, dest, r, ty)
    \/ \E j \in SendTasks : GatewaySend(j)
    \/ LoopSendMessage
    \/ \E ok \in BOOLEAN : SinkResult(ok)
    \/ LoopSleepOrElse
    \/ TimePasses
    \/ \E shuttle \in BOOLEAN : DropGateway(shuttle)
    \/ GatewayJoin
    \/ GatewayJoinReturn

\* the tasks that only receive, with the loop, the network stream and drop
NextMeshReceive ==
    \/ \E debug \in BOOLEAN : GatewayNew(debug, 1)
    \/ \E k \in RecvTasks, source \in GwRoles, r \in RbRecords :
          MeshReceive(k, source, r)
    \/ \E k \in RecvTasks : GatewayReceiveSend(k)
    \/ \E k \in RecvTasks : GatewayReceiveAwait(k)
    \/ LoopReceiveRequest
    \/ LoopReceiveMessages
    \/ LoopSleepOrElse
    \/ TimePasses
    \/ \E source \in GwRoles, records \in GwFrames :
          NetFrame(<<source, MeshStep>>, records, 1)
    \/ NetClose
    \/ \E shuttle \in BOOLEAN : DropGateway(shuttle)

\* one sending and one receiving task on record 0 with every source of the
\* loop, join and drop
NextEventLoop ==
    \/ \E items \in 1..MaxItemsInBatch : GatewayNew(TRUE, items)
    \/ \E dest \in GwRoles : MeshSend(1, dest, 0, Fp31)
    \/ GatewaySend(1)
    \/ \E source \in GwRoles : MeshReceive(1, source, 0)
    \/ GatewayReceiveSend(1)
    \/ GatewayReceiveAwait(1)
    \/ LoopReceiveRequest
    \/ LoopReceiveMessages
    \/ LoopSendMessage
    \/ \E ok \in BOOLEAN : SinkResult(ok)
    \/ LoopSleepOrElse
    \/ TimePasses
    \/ \E source \in GwRoles : NetFrame(<<source, MeshStep>>, <<0>>, MaxNetFrames)
    \/ NetClose
    \/ \E shuttle \in BOOLEAN : DropGateway(shuttle)
    \/ GatewayJoin
    \/ GatewayJoinReturn

(***************************************************************************)
(* DZKP: the field, the Lagrange tables, compute_proof and                 *)
(* gen_challenge_and_recurse over F_31.                                    *)
(***************************************************************************)
\* the modulus of Fp31, the field of the sample proof
Prime == 31
\* most chunks in an input uv list that is not the sample
MaxChunks == 5
\* largest seed of the generated inputs and proof shares
MaxSeed == 1
\* the chunk sizes λ the generator is instantiated with
Lambdas == {2, 3, 4}

FieldAdd(a, b) == (a + b) % Prime
FieldSub(a, b) == (a + Prime - (b % Prime)) % Prime
FieldMul(a, b) == (a * b) % Prime
\* the multiplicative inverse of a non-zero element
FieldInv(a) == CHOOSE x \in 1..(Prime - 1) : FieldMul(a % Prime, x) = 1
\* F::try_from(x) for an integer that may be negative
FieldFrom(x) == ((x % Prime) + Prime) % Prime

RECURSIVE ProdDiff(_, _, _)
\* the product of (x - j) over j in 0..n-1, j # skip
ProdDiff(x, skip, n) ==
    IF n = 0 THEN 1
    ELSE LET rest == ProdDiff(x, skip, n - 1)
         IN  IF n - 1 = skip THEN rest
             ELSE FieldMul(rest, FieldFrom(x - (n - 1)))

\* CanonicalLagrangeDenominator: for x_i = i, the product of (x_i - x_j), j # i
CanonicalLagrangeDenominator(lam) ==
    [i \in 0..(lam - 1) |-> ProdDiff(i, i, lam)]

\* LagrangeTable: for each output x-coordinate the λ weights
\* prod_{j # i}(x - x_j) / denominator[i]
LagrangeTable(lam, xs) ==
    LET denominator == CanonicalLagrangeDenominator(lam)
    IN  [k \in 1..Len(xs) |->
            [i \in 0..(lam - 1) |->
                FieldMul(ProdDiff(xs[k], i, lam), FieldInv(denominator[i]))]]

RECURSIVE DotProduct(_, _, _)
\* sum over i < n of weights[i] * ys[i + 1]
DotProduct(weights, ys, n) ==
    IF n = 0 THEN 0
    ELSE FieldAdd(DotProduct(weights, ys, n - 1),
                  FieldMul(weights[n - 1], ys[n]))

\* LagrangeTable::eval: the polynomial through (i, ys[i]) at each output
TableEval(table, ys) ==
    [k \in 1..Len(table) |-> DotProduct(table[k], ys, Len(ys))]

\* the table with K = λ - 1: the x-coordinates λ..2λ-2
ExtrapolationTable(lam) ==
    LagrangeTable(lam, [k \in 1..(lam - 1) |-> lam + k - 1])

\* the table with K = 1: the x-coordinate r
ChallengeTable(lam, r) == LagrangeTable(lam, <<r>>)

\* the extra products of a chunk are dropped from the proof
ProofStepPointwiseOnly(proof, chunk, lam, table) ==
    [i \in 1..(2 * lam - 1) |->
        IF i <= lam THEN FieldAdd(proof[i], FieldMul(chunk[1][i], chunk[2][i]))
        ELSE proof[i]]

\* the products of a chunk replace what the proof holds instead of adding to it
ProofStepAssign(proof, chunk, lam, table) ==
    LET p_extrapolated == TableEval(table, chunk[1])
        q_extrapolated == TableEval(table, chunk[2])
    IN  [i \in 1..(2 * lam - 1) |->
            IF i <= lam
            THEN FieldMul(chunk[1][i], chunk[2][i])
            ELSE FieldMul(p_extrapolated[i - lam], q_extrapolated[i - lam])]

\* the body of the loop of compute_proof for one uv_polynomial
ProofStep(proof, chunk, lam, table) ==
    LET p_extrapolated == TableEval(table, chunk[1])
        q_extrapolated == TableEval(table, chunk[2])
    IN  [i \in 1..(2 * lam - 1) |->
            IF i <= lam
            THEN FieldAdd(proof[i], FieldMul(chunk[1][i], chunk[2][i]))
            ELSE FieldAdd(proof[i], FieldMul(p_extrapolated[i - lam],
                                             q_extrapolated[i - lam]))]

RECURSIVE ProofLoop(_, _, _, _)
\* `for uv_polynomial in uv_iterator`, from the proof accumulated so far
ProofLoop(proof, uv, lam, table) ==
    IF uv = <<>> THEN proof
    ELSE ProofLoop(ProofStep(proof, Head(uv), lam, table), Tail(uv), lam, table)

\* ProofGenerator::compute_proof(uv_iterator, lagrange_table)
compute_proof(uv, lam) ==
    ProofLoop([i \in 1..(2 * lam - 1) |-> 0], uv, lam, ExtrapolationTable(lam))

\* compute_hash: the digest of a proof share, told apart by its content
compute_hash(proof) == <<"hash", proof>>

RECURSIVE Mix(_, _)
\* a stand-in digest arithmetic: a weighted sum of the elements
Mix(g, n) == IF n = 0 THEN 0 ELSE (3 * Mix(g, n - 1) + g[n] + 1) % 1009

\* the shares of the sample proof and the challenges the sample pins for them
PROOF_LEFT_1 == <<0, 11, 24, 8, 0, 4, 3>>
PROOF_RIGHT_1 == <<0, 19, 5, 22, 5, 24, 10>>
PROOF_LEFT_2 == <<5, 26, 14, 9, 0, 25, 2>>
PROOF_RIGHT_2 == <<7, 11, 1, 30, 29, 5, 4>>

\* hash_to_field(left digest, right digest, λ): a field element outside
\* 0..λ-1, a function of its three arguments
hash_to_field(left, right, exclude) ==
    CASE left[2] = PROOF_LEFT_1 /\ right[2] = PROOF_RIGHT_1 /\ exclude = 4 -> 22
      [] left[2] = PROOF_LEFT_2 /\ right[2] = PROOF_RIGHT_2 /\ exclude = 4 -> 17
      [] OTHER ->
           exclude + ((Mix(left[2], Len(left[2])) + 7 * Mix(right[2], Len(right[2])))
                        % (Prime - exclude))

\* the challenge also depends on the round in which it is derived
ChallengePerRound(proof_left, proof_right, lam) ==
    hash_to_field(compute_hash(proof_left),
                  compute_hash([proof_right EXCEPT ![1] = (@ + dz_round) % Prime]),
                  lam)

\* `let r: F = hash_to_field(&compute_hash(proof_left),
\*                           &compute_hash(proof_right), λ::U128)`
Challenge(proof_left, proof_right, lam) ==
    hash_to_field(compute_hash(proof_left), compute_hash(proof_right), lam)

\* GenericArray::generate(|_| F::ZERO)
ZeroChunk(lam) == [i \in 1..lam |-> 0]

\* the chunk is pushed one element early
ChunkFullEarly(index, lam) == index >= lam - 1

\* `if index >= λ::USIZE`
ChunkFull(index, lam) == index >= lam

\* the body of the loop of gen_challenge_and_recurse for one polynomial
RecurseStep(st, polynomial, lam, lagrange_table_r) ==
    LET u == TableEval(lagrange_table_r, polynomial[1])[1]
        v == TableEval(lagrange_table_r, polynomial[2])[1]
        st1 == IF ChunkFull(st.index, lam)
               THEN [output |-> Append(st.output, <<st.new_u_chunk, st.new_v_chunk>>),
                     new_u_chunk |-> ZeroChunk(lam),
                     new_v_chunk |-> ZeroChunk(lam),
                     index |-> 0]
               ELSE st
    IN  [output |-> st1.output,
         new_u_chunk |-> [st1.new_u_chunk EXCEPT ![st1.index + 1] = u],
         new_v_chunk |-> [st1.new_v_chunk EXCEPT ![st1.index + 1] = v],
         index |-> st1.index + 1]

RECURSIVE RecurseLoop(_, _, _, _)
\* `for polynomial in uv_iterator`: the state after the first polynomial,
\* computed once, then the rest of the iterator
RecurseLoop(st, uv, lam, lagrange_table_r) ==
    IF uv = <<>> THEN st
    ELSE CHOOSE end \in
             {RecurseLoop(next, Tail(uv), lam, lagrange_table_r) :
                 next \in {RecurseStep(st, Head(uv), lam, lagrange_table_r)}} : TRUE

\* every pair gets a chunk of its own
RecurseUnpacked(uv, lam, r) ==
    [k \in 1..Len(uv) |->
        <<[i \in 1..lam |-> IF i = 1
                            THEN TableEval(ChallengeTable(lam, r), uv[k][1])[1]
                            ELSE 0],
          [i \in 1..lam |-> IF i = 1
                            THEN TableEval(ChallengeTable(lam, r), uv[k][2])[1]
                            ELSE 0]>>]

\* gen_challenge_and_recurse after the challenge: interpolate every chunk at
\* the x-coordinate r and repack, `if index != 0` pushing the last chunk
Recurse(uv, lam, r) ==
    CHOOSE output \in
        {IF st.index # 0
         THEN Append(st.output, <<st.new_u_chunk, st.new_v_chunk>>)
         ELSE st.output :
            st \in {RecurseLoop([output |-> <<>>, new_u_chunk |-> ZeroChunk(lam),
                                 new_v_chunk |-> ZeroChunk(lam), index |-> 0],
                                uv, lam, lagrange_table_r) :
                        lagrange_table_r \in {ChallengeTable(lam, r)}}} : TRUE

\* ProofGenerator::gen_challenge_and_recurse(proof_left, proof_right,
\* uv_iterator): the challenge r and the uv list of the returned generator
gen_challenge_and_recurse(proof_left, proof_right, uv, lam) ==
    LET r == Challenge(proof_left, proof_right, lam)
    IN  [r |-> r, uv |-> Recurse(uv, lam, r)]

\* the inputs of test::sample_proof
U_1 == <<0, 30, 0, 16, 0, 1, 0, 15, 0, 0, 0, 16, 0, 30, 0, 16, 29, 1, 1, 15, 0, 0,
         1, 15, 2, 30, 30, 16, 0, 0, 30, 16>>
V_1 == <<0, 0, 0, 30, 0, 0, 0, 1, 30, 30, 30, 30, 0, 0, 30, 30, 0, 30, 0, 30, 0, 0,
         0, 1, 0, 0, 1, 1, 0, 0, 1, 1>>
U_2 == <<0, 0, 26, 0, 7, 18, 24, 13>>
V_2 == <<10, 21, 30, 28, 15, 21, 3, 3>>
U_3 == <<3, 3, 0, 0>>
V_3 == <<5, 24, 0, 0>>
PROOF_1 == <<0, 30, 29, 30, 5, 28, 13>>
PROOF_2 == <<12, 6, 15, 8, 29, 30, 6>>

\* zip_chunks: the two slices cut into pairs of λ-tuples
zip_chunks(a, b, lam) ==
    [k \in 1..(Len(a) \div lam) |->
        <<SubSeq(a, (k - 1) * lam + 1, k * lam),
          SubSeq(b, (k - 1) * lam + 1, k * lam)>>]

\* a generated field element, to fill inputs that are not the sample
GenElem(seed, k, i) == (seed * (k + i) + k * k + 5 * i) % Prime

\* a generated uv list of n chunks
GenUv(lam, n, seed) ==
    [k \in 1..n |-> <<[i \in 1..lam |-> GenElem(seed, k, i)],
                      [i \in 1..lam |-> GenElem(seed + 3, k + 1, i)]>>]

\* the uv lists a run starts from
DzInputs(lam) ==
    {GenUv(lam, n, seed) : n \in 0..MaxChunks, seed \in 0..MaxSeed}
    \cup (IF lam = 4 THEN {zip_chunks(U_1, V_1, 4)} ELSE {})

\* the left shares PRSS may produce
DzLefts(lam) ==
    {[i \in 1..(2 * lam - 1) |-> (seed * i + 1) % Prime] : seed \in 0..MaxSeed}
    \cup (IF lam = 4 THEN {PROOF_LEFT_1, PROOF_LEFT_2} ELSE {})

NoChallenge == -1

InitDzkp ==
    /\ dz_lambda = 2
    /\ dz_phase = "Idle"
    /\ dz_round = 0
    /\ dz_uv = <<>>
    /\ dz_proof = <<>>
    /\ dz_left = <<>>
    /\ dz_right = <<>>
    /\ dz_r = NoChallenge
    /\ dz_out = <<>>
    /\ dz_vr = NoChallenge
    /\ dz_vout = <<>>

\* the round's state besides its uv list is blank
BlankRound ==
    /\ dz_proof' = <<>>
    /\ dz_left' = <<>>
    /\ dz_right' = <<>>
    /\ dz_r' = NoChallenge
    /\ dz_out' = <<>>
    /\ dz_vr' = NoChallenge
    /\ dz_vout' = <<>>

\* the recursion has collapsed the state to at most one chunk
DzkpFinished == dz_phase = "Collapsed" /\ Len(dz_out) <= 1

\* a run begins: the uv list of the first round is collected
DzkpStart(lam, uv) ==
    /\ dz_phase = "Idle" \/ DzkpFinished
    /\ dz_lambda' = lam
    /\ dz_phase' = "Collecting"
    /\ dz_round' = 0
    /\ dz_uv' = uv
    /\ BlankRound
    /\ UNCHANGED notDzkp

\* `ProofGenerator::compute_proof(uv.iter(), &lagrange_table)`
DzkpComputeProof ==
    /\ dz_phase = "Collecting"
    /\ dz_proof' = compute_proof(dz_uv, dz_lambda)
    /\ dz_phase' = "ProofEmitted"
    /\ UNCHANGED <<dz_lambda, dz_round, dz_uv, dz_left, dz_right, dz_r, dz_out,
                   dz_vr, dz_vout>>
    /\ UNCHANGED notDzkp

\* the challenge does not wait for the shares
SharesReadyAlways == TRUE

\* the proof has been split into its two shares
SharesReady == dz_left # <<>> /\ dz_right # <<>>

\* the proof is secret-shared: proof_left from PRSS, proof_right the rest
DzkpShareProof(left) ==
    /\ dz_phase = "ProofEmitted"
    /\ ~SharesReady
    /\ dz_left' = left
    /\ dz_right' = [i \in 1..(2 * dz_lambda - 1) |-> FieldSub(dz_proof[i], left[i])]
    /\ UNCHANGED <<dz_lambda, dz_phase, dz_round, dz_uv, dz_proof, dz_r, dz_out,
                   dz_vr, dz_vout>>
    /\ UNCHANGED notDzkp

\* gen_challenge_and_recurse is called with the shares: the challenge
DzkpChallenge ==
    /\ dz_phase = "ProofEmitted"
    /\ SharesReady
    /\ dz_r' = Challenge(dz_left, dz_right, dz_lambda)
    /\ dz_phase' = "ChallengeIssued"
    /\ UNCHANGED <<dz_lambda, dz_round, dz_uv, dz_proof, dz_left, dz_right,
                   dz_out, dz_vr, dz_vout>>
    /\ UNCHANGED notDzkp

\* gen_challenge_and_recurse folds the uv list of the round and returns
DzkpRecurse ==
    /\ dz_phase = "ChallengeIssued"
    /\ dz_out' = Recurse(dz_uv, dz_lambda, dz_r)
    /\ dz_phase' = "Collapsed"
    /\ dz_round' = dz_round + 1
    /\ UNCHANGED <<dz_lambda, dz_uv, dz_proof, dz_left, dz_right, dz_r, dz_vr,
                   dz_vout>>
    /\ UNCHANGED notDzkp

\* the verifier, holding the same shares and the same uv list, makes its own
\* call of gen_challenge_and_recurse
DzkpVerifierRecurse ==
    /\ dz_phase \in {"ChallengeIssued", "Collapsed"}
    /\ dz_vr = NoChallenge
    /\ LET pg == gen_challenge_and_recurse(dz_left, dz_right, dz_uv, dz_lambda)
       IN  /\ dz_vr' = pg.r
           /\ dz_vout' = pg.uv
    /\ UNCHANGED <<dz_lambda, dz_phase, dz_round, dz_uv, dz_proof, dz_left,
                   dz_right, dz_r, dz_out>>
    /\ UNCHANGED notDzkp

\* the next round takes the uv list the recursion returned
DzkpNextRound ==
    /\ dz_phase = "Collapsed"
    /\ Len(dz_out) > 1
    /\ dz_uv' = dz_out
    /\ dz_phase' = "Collecting"
    /\ BlankRound
    /\ UNCHANGED <<dz_lambda, dz_round>>
    /\ UNCHANGED notDzkp

NextDzkp ==
    \/ \E lam \in Lambdas : \E uv \in DzInputs(lam) : DzkpStart(lam, uv)
    \/ DzkpComputeProof
    \/ \E left \in DzLefts(dz_lambda) : DzkpShareProof(left)
    \/ DzkpChallenge
    \/ DzkpRecurse
    \/ DzkpVerifierRecurse
    \/ DzkpNextRound

(***************************************************************************)
(* Specifications.                                                         *)
(***************************************************************************)
(***************************************************************************)
(* Modulus conversion: convert_bit_local and convert_bit on three helpers   *)
(***************************************************************************)

\* bits of a match key in the model
KeyBits == 2

\* the masks the multiplication may draw from
MaxMask == 1

Helpers == 1..3

\* the helper to the right of h
RightOf(h) == (h % 3) + 1

Keys == 0..(2 ^ KeyBits - 1)

\* `(x >> bit_index) & 1`
BitOf(x, bit_index) == (x \div (2 ^ bit_index)) % 2

RECURSIVE BitXor(_, _, _)
\* a ^ b on the lowest n bits
BitXor(a, b, n) ==
    IF n = 0 THEN 0
    ELSE ((a + b) % 2) + 2 * BitXor(a \div 2, b \div 2, n - 1)

\* Replicated::new(left, right)
Replicated(left, right) == [left |-> left, right |-> right]

\* the arithmetic of Replicated<F>: componentwise in F
RepAdd(a, b) == Replicated(FieldAdd(a.left, b.left), FieldAdd(a.right, b.right))
RepNeg(a) == Replicated(FieldSub(0, a.left), FieldSub(0, a.right))
RepScale(a, c) == Replicated(FieldMul(a.left, c), FieldMul(a.right, c))

\* the three helpers' shares (x1, x2), (x2, x3), (x3, x1) of x1 + x2 + x3
Sharing(x1, x2, x3) ==
    [h \in Helpers |->
        CASE h = 1 -> Replicated(x1, x2)
          [] h = 2 -> Replicated(x2, x3)
          [] h = 3 -> Replicated(x3, x1)]

\* the helpers hold the same value where their shares overlap
Consistent(sh) == \A h \in Helpers : sh[h].right = sh[RightOf(h)].left

\* [Replicated<F>; 3]::reconstruct
Reconstruct(sh) == FieldAdd(FieldAdd(sh[1].left, sh[2].left), sh[3].left)

\* every helper converts as H1 does
convert_bit_localAsH1(helper_role, bit_index, input) ==
    LET left == BitOf(input.left, bit_index)
        right == BitOf(input.right, bit_index)
    IN  <<Replicated(left, 0), Replicated(0, right), Replicated(0, 0)>>

\* convert_bit_local::<F>(helper_role, bit_index, input)
convert_bit_local(helper_role, bit_index, input) ==
    LET left == BitOf(input.left, bit_index)
        right == BitOf(input.right, bit_index)
    IN  CASE helper_role = 1 ->
               <<Replicated(left, 0), Replicated(0, right), Replicated(0, 0)>>
          [] helper_role = 2 ->
               <<Replicated(0, 0), Replicated(left, 0), Replicated(0, right)>>
          [] helper_role = 3 ->
               <<Replicated(0, right), Replicated(0, 0), Replicated(left, 0)>>

\* ctx.multiply_*_mostly_zeroes(record_id, a, b) on the three helpers: a
\* sharing of the product of the two shared values, masked by r1 and r2
Multiply(a, b, r1, r2) ==
    LET ab == FieldMul(Reconstruct(a), Reconstruct(b))
    IN  Sharing(r1, r2, FieldSub(FieldSub(ab, r1), r2))

\* `Ok(-(result * F::from(2)) + a + b)`
XorOfShares(product, a, b) == RepAdd(RepAdd(RepNeg(RepScale(product, 2)), a), b)

\* xor_specialized_1 and xor_specialized_2 on the three helpers
xor_specialized(a, b, r1, r2) ==
    LET product == Multiply(a, b, r1, r2)
    IN  [h \in Helpers |-> XorOfShares(product[h], a[h], b[h])]

\* the k-th locally converted bit of every helper
LocalBit(k) == [h \in Helpers |-> mc_triple[h][k]]

InitConvert ==
    /\ mc_phase = "Idle"
    /\ mc_key = 0
    /\ mc_bit = 0
    /\ mc_input = [h \in Helpers |-> Replicated(0, 0)]
    /\ mc_triple = [h \in Helpers |-> <<>>]
    /\ mc_xor1 = [h \in Helpers |-> Replicated(0, 0)]
    /\ mc_result = [h \in Helpers |-> Replicated(0, 0)]

\* world.semi_honest(match_key, ..): the key is XOR-shared among the helpers
McShare(key, x1, x2, bit_index) ==
    /\ mc_phase = "Idle"
    /\ mc_key' = key
    /\ mc_bit' = bit_index
    /\ mc_input' = Sharing(x1, x2, BitXor(BitXor(key, x1, KeyBits), x2, KeyBits))
    /\ mc_phase' = "Shared"
    /\ UNCHANGED <<mc_triple, mc_xor1, mc_result>>
    /\ UNCHANGED notConvert

\* a helper runs convert_bit_local on its share
McConvertBitLocal(h) ==
    /\ mc_phase = "Shared"
    /\ mc_triple[h] = <<>>
    /\ mc_triple' = [mc_triple EXCEPT ![h] = convert_bit_local(h, mc_bit, mc_input[h])]
    /\ UNCHANGED <<mc_phase, mc_key, mc_bit, mc_input, mc_xor1, mc_result>>
    /\ UNCHANGED notConvert

\* convert_bit: xor_specialized_1(ctx1, record_id, sh0, sh1)
McXor1(r1, r2) ==
    /\ mc_phase = "Shared"
    /\ \A h \in Helpers : mc_triple[h] # <<>>
    /\ mc_xor1' = xor_specialized(LocalBit(1), LocalBit(2), r1, r2)
    /\ mc_phase' = "Xor1"
    /\ UNCHANGED <<mc_key, mc_bit, mc_input, mc_triple, mc_result>>
    /\ UNCHANGED notConvert

\* convert_bit: xor_specialized_2(ctx2, record_id, &sh0_xor_sh1, sh2)
McXor2(r1, r2) ==
    /\ mc_phase = "Xor1"
    /\ mc_result' = xor_specialized(mc_xor1, LocalBit(3), r1, r2)
    /\ mc_phase' = "Done"
    /\ UNCHANGED <<mc_key, mc_bit, mc_input, mc_triple, mc_xor1>>
    /\ UNCHANGED notConvert

NextConvert ==
    \/ \E key \in Keys, x1 \in Keys, x2 \in Keys, bit_index \in 0..(KeyBits - 1) :
          McShare(key, x1, x2, bit_index)
    \/ \E h \in Helpers : McConvertBitLocal(h)
    \/ \E r1 \in 0..MaxMask, r2 \in 0..MaxMask : McXor1(r1, r2)
    \/ \E r1 \in 0..MaxMask, r2 \in 0..MaxMask : McXor2(r1, r2)

(***************************************************************************)
(* The Switch of the in-memory transport: new_peer, listen, halt           *)
(***************************************************************************)

\* calls made on one Switch in the model
MaxCalls == 5

HelperIdentities == 1..3

NotInIdle == "Not in Idle state"

PeerInserted == "assertion failed: peers.insert(peer_id, peer_rx).is_none()"

\* the place of a state in Idle, Preparing, Listening
StateRank(state) ==
    CASE state = "Idle" -> 0
      [] state = "Preparing" -> 1
      [] state = "Listening" -> 2

InitSwitch ==
    /\ sw_state = "Idle"
    /\ sw_peers = {}
    /\ sw_pc = "ready"
    /\ sw_outcome = "none"
    /\ sw_task = "none"
    /\ sw_calls = 0

\* `std::mem::replace(&mut self.state, State::Preparing)`
ListenReplaced(found) == "Preparing"

\* Switch::new_peer(peer_id, peer_rx)
SwitchNewPeer(peer_id) ==
    /\ sw_pc = "ready"
    /\ sw_calls < MaxCalls
    /\ sw_calls' = sw_calls + 1
    /\ IF sw_state # "Idle"
       THEN /\ sw_outcome' = NotInIdle
            /\ UNCHANGED sw_peers
       ELSE /\ sw_peers' = sw_peers \cup {peer_id}
            /\ sw_outcome' = IF peer_id \in sw_peers THEN PeerInserted ELSE "ok"
    /\ UNCHANGED <<sw_state, sw_pc, sw_task>>
    /\ UNCHANGED notSwitch

\* Switch::listen, to its let-else: the state is replaced by Preparing, and
\* the call panics when the state it found was not Idle
SwitchListen ==
    /\ sw_pc = "ready"
    /\ sw_calls < MaxCalls
    /\ sw_calls' = sw_calls + 1
    /\ sw_state' = ListenReplaced(sw_state)
    /\ IF sw_state = "Idle"
       THEN /\ sw_pc' = "listen"
            /\ UNCHANGED sw_outcome
       ELSE /\ sw_outcome' = NotInIdle
            /\ UNCHANGED sw_pc
    /\ UNCHANGED <<sw_peers, sw_task>>
    /\ UNCHANGED notSwitch

\* Switch::listen, the rest: the loop is spawned with the peer links and the
\* state becomes Listening
SwitchListenSpawn ==
    /\ sw_pc = "listen"
    /\ sw_task' = "running"
    /\ sw_state' = "Listening"
    /\ sw_pc' = "ready"
    /\ sw_outcome' = "ok"
    /\ UNCHANGED <<sw_peers, sw_calls>>
    /\ UNCHANGED notSwitch

\* Switch::halt with the loop running: the loop takes SwitchCommand::Halt and
\* breaks
SwitchHalt ==
    /\ sw_pc = "ready"
    /\ sw_calls < MaxCalls
    /\ sw_task = "running"
    /\ sw_calls' = sw_calls + 1
    /\ sw_task' = "ended"
    /\ sw_outcome' = "ok"
    /\ UNCHANGED <<sw_state, sw_peers, sw_pc>>
    /\ UNCHANGED notSwitch

NextSwitch ==
    \/ \E peer_id \in HelperIdentities : SwitchNewPeer(peer_id)
    \/ SwitchListen
    \/ SwitchListenSpawn
    \/ SwitchHalt

(***************************************************************************)
(* The loop that Switch::listen spawns, with its QueryCommandRouter,       *)
(* Switch::query_stream and Switch::halt                                   *)
(***************************************************************************)

\* the query ids of the subscriptions and events
QueryIds == {1, 2}
\* the calls of query_stream, each by a task of its own
QrCalls == {1, 2}
\* the peers whose links are given to new_peer
RouterPeers == {2, 3}
\* events a peer sends on its link in a run
MaxEvents == 2
\* commands a peer link holds
LinkCapacity == 1

\* `panic!("No subscribers for {query_id:?}")`
NoSubscribers(query_id) == <<"No subscribers for", query_id>>
\* `assert!(self.routes.insert(query_id, sender).is_none())`
RouteInserted == "assertion failed: self.routes.insert(query_id, sender).is_none()"
\* `.send(..).await.unwrap()` on a stream whose receiver is gone
StreamClosed == "called Result::unwrap() on an Err value: SendError"
NoPending == <<>>

InitRouter ==
    /\ qr_loop = "select"
    /\ qr_panic = NoPanic
    /\ qr_cmd = <<>>
    /\ qr_halted = FALSE
    /\ qr_routes = <<>>
    /\ qr_call = [c \in QrCalls |-> [pc |-> "idle", query_id |-> 0]]
    /\ qr_ack = [c \in QrCalls |-> "none"]
    /\ qr_stream = [c \in QrCalls |-> <<>>]
    /\ qr_got = [c \in QrCalls |-> <<>>]
    /\ qr_links = [p \in RouterPeers |-> <<>>]
    /\ qr_sent = [p \in RouterPeers |-> <<>>]
    /\ qr_pending = NoPending

\* the loop task is running
LoopRunning == sw_task = "running" /\ qr_loop \in {"select", "route"}
\* the loop task has panicked or broken out: its receivers are dropped
LoopGone == qr_loop \in {"panicked", "ended"}

\* a second subscription for a query id replaces the first
SubscribeAssertsNothing(routes, query_id) == TRUE

\* the assertion of subscribe holds: the map had no sender for the query id
SubscribeAsserts(routes, query_id) == query_id \notin DOMAIN routes

\* `self.routes.insert(query_id, sender)`
RoutesInsert(routes, query_id, c) ==
    [x \in DOMAIN routes \cup {query_id} |-> IF x = query_id THEN c ELSE routes[x]]

\* every event goes to the stream of the first subscription
RoutesGetFirst(routes, query_id) ==
    routes[CHOOSE x \in DOMAIN routes : \A y \in DOMAIN routes : x <= y]

\* `self.routes.get(&query_id)`: the sender of the stream subscribed for it
RoutesGet(routes, query_id) == routes[query_id]

\* the stream of call c has room for an envelope (`mpsc::channel(1)`)
StreamHasRoom(c) == Len(qr_stream[c]) < 1
\* the receiver of the stream of call c is gone
StreamGone(c) == qr_call[c].pc = "dropped"

\* the loop task ends: the command receiver, the acks of the commands it
\* holds and the senders of the router are dropped
EndRouterLoop(how, panic) ==
    /\ qr_loop' = how
    /\ qr_panic' = panic
    /\ sw_task' = "ended"
    /\ qr_cmd' = <<>>
    /\ qr_ack' = [c \in QrCalls |->
          IF qr_call[c].pc = "awaiting" /\ qr_ack[c] = "none"
          THEN "dropped" ELSE qr_ack[c]]
    /\ qr_routes' = <<>>
    /\ qr_pending' = NoPending

\* Switch::query_stream(query_id): the stream's channel and the request are made
QueryStream(c, query_id) ==
    /\ qr_call[c].pc = "idle"
    /\ qr_call' = [qr_call EXCEPT ![c] = [pc |-> "sending", query_id |-> query_id]]
    /\ UNCHANGED <<qr_loop, qr_panic, qr_cmd, qr_halted, qr_routes, qr_ack,
                   qr_stream, qr_got, qr_links, qr_sent, qr_pending, sw_state,
                   sw_peers, sw_pc, sw_outcome, sw_task, sw_calls>>
    /\ UNCHANGED notRouter

\* `self.tx.send(SwitchCommand::Subscribe(command)).await.unwrap()`
QueryStreamSend(c) ==
    /\ qr_call[c].pc = "sending"
    /\ IF LoopGone
       THEN /\ qr_call' = [qr_call EXCEPT ![c].pc = "panicked"]
            /\ qr_cmd' = qr_cmd
       ELSE /\ Len(qr_cmd) < 1
            /\ qr_cmd' = Append(qr_cmd, [kind |-> "Subscribe", call |-> c,
                                         query_id |-> qr_call[c].query_id])
            /\ qr_call' = [qr_call EXCEPT ![c].pc = "awaiting"]
    /\ UNCHANGED <<qr_loop, qr_panic, qr_halted, qr_routes, qr_ack, qr_stream,
                   qr_got, qr_links, qr_sent, qr_pending, sw_state, sw_peers,
                   sw_pc, sw_outcome, sw_task, sw_calls>>
    /\ UNCHANGED notRouter

\* `ack_rx.await.unwrap()` resolves and the stream is returned
QueryStreamAck(c) ==
    /\ qr_call[c].pc = "awaiting"
    /\ qr_ack[c] # "none"
    /\ qr_call' = [qr_call EXCEPT ![c].pc =
          IF qr_ack[c] = "sent" THEN "returned" ELSE "panicked"]
    /\ UNCHANGED <<qr_loop, qr_panic, qr_cmd, qr_halted, qr_routes, qr_ack,
                   qr_stream, qr_got, qr_links, qr_sent, qr_pending, sw_state,
                   sw_peers, sw_pc, sw_outcome, sw_task, sw_calls>>
    /\ UNCHANGED notRouter

\* Switch::halt: `self.tx.send(SwitchCommand::Halt).await.unwrap()`
SwitchHaltSend ==
    /\ ~qr_halted
    /\ ~LoopGone
    /\ Len(qr_cmd) < 1
    /\ qr_cmd' = Append(qr_cmd, [kind |-> "Halt", call |-> 0, query_id |-> 0])
    /\ qr_halted' = TRUE
    /\ UNCHANGED <<qr_loop, qr_panic, qr_routes, qr_call, qr_ack, qr_stream,
                   qr_got, qr_links, qr_sent, qr_pending, sw_state, sw_peers,
                   sw_pc, sw_outcome, sw_task, sw_calls>>
    /\ UNCHANGED notRouter

\* the loop takes SwitchCommand::Subscribe: subscribe, then acknowledge
LoopSubscribe ==
    /\ LoopRunning /\ qr_loop = "select"
    /\ qr_cmd # <<>> /\ Head(qr_cmd).kind = "Subscribe"
    /\ LET command == Head(qr_cmd)
       IN  IF SubscribeAsserts(qr_routes, command.query_id)
           THEN /\ qr_routes' = RoutesInsert(qr_routes, command.query_id,
                                             command.call)
                /\ qr_ack' = [qr_ack EXCEPT ![command.call] = "sent"]
                /\ qr_cmd' = Tail(qr_cmd)
                /\ UNCHANGED <<qr_loop, qr_panic, sw_task, qr_pending>>
           ELSE EndRouterLoop("panicked", RouteInserted)
    /\ UNCHANGED <<qr_halted, qr_call, qr_stream, qr_got, qr_links, qr_sent,
                   sw_state, sw_peers, sw_pc, sw_outcome, sw_calls>>
    /\ UNCHANGED notRouter

\* the loop takes SwitchCommand::Halt and breaks
LoopHalt ==
    /\ LoopRunning /\ qr_loop = "select"
    /\ qr_cmd # <<>> /\ Head(qr_cmd).kind = "Halt"
    /\ EndRouterLoop("ended", NoPanic)
    /\ UNCHANGED <<qr_halted, qr_call, qr_stream, qr_got, qr_links, qr_sent,
                   sw_state, sw_peers, sw_pc, sw_outcome, sw_calls>>
    /\ UNCHANGED notRouter

\* the loop takes a NetworkEvent from the link of peer p: route, up to the
\* completion of `sender.send(..).await`
LoopRoute(p) ==
    /\ LoopRunning /\ qr_loop = "select"
    /\ p \in sw_peers
    /\ qr_links[p] # <<>>
    /\ qr_links' = [qr_links EXCEPT ![p] = Tail(@)]
    /\ LET data == Head(qr_links[p])
           envelope == [origin |-> p, query_id |-> data.query_id, n |-> data.n]
       IN  IF data.query_id \notin DOMAIN qr_routes
           THEN /\ EndRouterLoop("panicked", NoSubscribers(data.query_id))
                /\ UNCHANGED qr_stream
           ELSE LET c == RoutesGet(qr_routes, data.query_id)
                IN  IF StreamGone(c)
                    THEN /\ EndRouterLoop("panicked", StreamClosed)
                         /\ UNCHANGED qr_stream
                    ELSE /\ IF StreamHasRoom(c)
                            THEN /\ qr_stream' = [qr_stream EXCEPT ![c] =
                                                     Append(@, envelope)]
                                 /\ UNCHANGED <<qr_loop, qr_pending>>
                            ELSE /\ qr_loop' = "route"
                                 /\ qr_pending' = [call |-> c, env |-> envelope]
                                 /\ UNCHANGED qr_stream
                         /\ UNCHANGED <<qr_panic, sw_task, qr_cmd, qr_ack,
                                        qr_routes>>
    /\ UNCHANGED <<qr_halted, qr_call, qr_got, qr_sent, sw_state, sw_peers,
                   sw_pc, sw_outcome, sw_calls>>
    /\ UNCHANGED notRouter

\* `sender.send(..).await` completes once the stream has room, or fails
LoopRouteResume ==
    /\ LoopRunning /\ qr_loop = "route"
    /\ IF StreamGone(qr_pending.call)
       THEN /\ EndRouterLoop("panicked", StreamClosed)
            /\ UNCHANGED qr_stream
       ELSE /\ StreamHasRoom(qr_pending.call)
            /\ qr_stream' = [qr_stream EXCEPT ![qr_pending.call] =
                                Append(@, qr_pending.env)]
            /\ qr_loop' = "select"
            /\ qr_pending' = NoPending
            /\ UNCHANGED <<qr_panic, sw_task, qr_cmd, qr_ack, qr_routes>>
    /\ UNCHANGED <<qr_halted, qr_call, qr_got, qr_links, qr_sent, sw_state,
                   sw_peers, sw_pc, sw_outcome, sw_calls>>
    /\ UNCHANGED notRouter

\* the subscriber takes the next envelope of the stream it was returned
StreamNext(c) ==
    /\ qr_call[c].pc = "returned"
    /\ qr_stream[c] # <<>>
    /\ qr_got' = [qr_got EXCEPT ![c] = Append(@, Head(qr_stream[c]))]
    /\ qr_stream' = [qr_stream EXCEPT ![c] = Tail(@)]
    /\ UNCHANGED <<qr_loop, qr_panic, qr_cmd, qr_halted, qr_routes, qr_call,
                   qr_ack, qr_links, qr_sent, qr_pending, sw_state, sw_peers,
                   sw_pc, sw_outcome, sw_task, sw_calls>>
    /\ UNCHANGED notRouter

\* the subscriber drops the stream it was returned
StreamDrop(c) ==
    /\ qr_call[c].pc = "returned"
    /\ qr_call' = [qr_call EXCEPT ![c].pc = "dropped"]
    /\ qr_stream' = [qr_stream EXCEPT ![c] = <<>>]
    /\ UNCHANGED <<qr_loop, qr_panic, qr_cmd, qr_halted, qr_routes, qr_ack,
                   qr_got, qr_links, qr_sent, qr_pending, sw_state, sw_peers,
                   sw_pc, sw_outcome, sw_task, sw_calls>>
    /\ UNCHANGED notRouter

\* peer p sends TransportCommand::NetworkEvent for a query on its link
PeerSend(p, query_id) ==
    /\ p \in sw_peers
    /\ ~LoopGone
    /\ Len(qr_links[p]) < LinkCapacity
    /\ Len(qr_sent[p]) < MaxEvents
    /\ qr_links' = [qr_links EXCEPT ![p] =
          Append(@, [query_id |-> query_id, n |-> Len(qr_sent[p]) + 1])]
    /\ qr_sent' = [qr_sent EXCEPT ![p] = Append(@, query_id)]
    /\ UNCHANGED <<qr_loop, qr_panic, qr_cmd, qr_halted, qr_routes, qr_call,
                   qr_ack, qr_stream, qr_got, qr_pending, sw_state, sw_peers,
                   sw_pc, sw_outcome, sw_task, sw_calls>>
    /\ UNCHANGED notRouter

\* the Switch is given its peers, each once, and then listens, once; tasks
\* subscribe, peers send events, subscribers read or drop their streams, the
\* Switch is halted
NextRouter ==
    \/ \E peer_id \in RouterPeers \ sw_peers :
          sw_state = "Idle" /\ SwitchNewPeer(peer_id)
    \/ sw_state = "Idle" /\ SwitchListen
    \/ SwitchListenSpawn
    \/ \E c \in QrCalls, query_id \in QueryIds : QueryStream(c, query_id)
    \/ \E c \in QrCalls : QueryStreamSend(c)
    \/ \E c \in QrCalls : QueryStreamAck(c)
    \/ SwitchHaltSend
    \/ LoopSubscribe
    \/ LoopHalt
    \/ \E p \in RouterPeers : LoopRoute(p)
    \/ LoopRouteResume
    \/ \E c \in QrCalls : StreamNext(c)
    \/ \E c \in QrCalls : StreamDrop(c)
    \/ \E p \in RouterPeers, query_id \in QueryIds : PeerSend(p, query_id)

(***************************************************************************)
(* hpke::Info: new and into_bytes                                          *)
(***************************************************************************)

\* longest string given to Info::new
MaxStrLen == 2
\* size of Epoch in bytes
EpochBytes == 2

\* `const DOMAIN: &str = "private-attribution"`, as bytes
DomainBytes == <<112, 114, 105, 118, 97, 116, 101, 45, 97, 116, 116, 114, 105,
                 98, 117, 116, 105, 111, 110>>

\* the ASCII characters of the strings of the model, NUL and 'a', by code
AsciiChars == {0, 97}
\* a string with a character that is not ASCII
NonAsciiString == <<233>>

\* the strings given to Info::new, as sequences of character codes
InfoStrings ==
    UNION {[1..n -> AsciiChars] : n \in 0..MaxStrLen} \cup {NonAsciiString}

KeyIdentifiers == {0, 1}
Epochs == {1, 256}

\* str::is_ascii
is_ascii(str) == \A i \in 1..Len(str) : str[i] < 128

\* Info::new
InfoNewResult(key_id, epoch, match_key_provider_origin, helper_origin, site_registrable_domain) ==
    IF ~is_ascii(match_key_provider_origin)
    THEN <<"Err", match_key_provider_origin>>
    ELSE IF ~is_ascii(helper_origin)
    THEN <<"Err", helper_origin>>
    ELSE IF ~is_ascii(site_registrable_domain)
    THEN <<"Err", site_registrable_domain>>
    ELSE <<"Ok", [key_id |-> key_id, epoch |-> epoch,
                  match_key_provider_origin |-> match_key_provider_origin,
                  helper_origin |-> helper_origin,
                  site_registrable_domain |-> site_registrable_domain]>>

\* Epoch::to_be_bytes
to_be_bytes(epoch) ==
    [b \in 1..EpochBytes |-> (epoch \div (256 ^ (EpochBytes - b))) % 256]

\* Info::into_bytes
into_bytes(info) ==
    DomainBytes \o <<0>>
        \o info.match_key_provider_origin \o <<0>>
        \o info.helper_origin \o <<0>>
        \o info.site_registrable_domain \o <<0>>
        \o <<info.key_id>> \o to_be_bytes(info.epoch)

\* the length into_bytes estimates for its vector
info_len(info) ==
    Len(DomainBytes) + Len(info.match_key_provider_origin)
        + Len(info.helper_origin) + Len(info.site_registrable_domain)
        + 4 + 1 + EpochBytes

InitInfo ==
    /\ hp_pc = "none"
    /\ hp_new = <<>>
    /\ hp_bytes = <<>>

\* Info::new(key_id, epoch, match_key_provider_origin, helper_origin,
\* site_registrable_domain)
InfoNew(key_id, epoch, match_key_provider_origin, helper_origin, site_registrable_domain) ==
    /\ hp_pc = "none"
    /\ hp_new' = InfoNewResult(key_id, epoch, match_key_provider_origin,
                               helper_origin, site_registrable_domain)
    /\ hp_pc' = "made"
    /\ UNCHANGED hp_bytes
    /\ UNCHANGED notInfo

\* Info::into_bytes(self) on the value Info::new returned
InfoIntoBytes ==
    /\ hp_pc = "made"
    /\ hp_new[1] = "Ok"
    /\ hp_bytes' = into_bytes(hp_new[2])
    /\ hp_pc' = "bytes"
    /\ UNCHANGED hp_new
    /\ UNCHANGED notInfo

NextInfo ==
    \/ \E key_id \in KeyIdentifiers, epoch \in Epochs :
          \E match_key_provider_origin \in InfoStrings,
             helper_origin \in InfoStrings,
             site_registrable_domain \in InfoStrings :
                InfoNew(key_id, epoch, match_key_provider_origin, helper_origin,
                        site_registrable_domain)
    \/ InfoIntoBytes

(***************************************************************************)
(* convert_bit_list: the rows of one call and their multiplications        *)
(***************************************************************************)

\* most rows given to one call of convert_bit_list
MaxRows == 3

\* the step of the context the call is given
BaseStep == <<"protocol">>

\* both steps are given the same name
StepAsRefSame(step) ==
    CASE step = "Xor1" -> "xor1"
      [] step = "Xor2" -> "xor1"

\* `impl AsRef<str> for Step`
StepAsRef(step) ==
    CASE step = "Xor1" -> "xor1"
      [] step = "Xor2" -> "xor2"

\* `ctx.narrow(&step)`: the step of the context with the name of the substep
Narrow(ctx_step, step) == Append(ctx_step, StepAsRef(step))

\* `RecordId::from(i)` for the index i of `enumerate()`
RecordIdFrom(i) == i

\* the multiplication a row issues under a step of its own context
Multiplication(i, step) ==
    [row |-> i, step |-> Narrow(BaseStep, step), record_id |-> RecordIdFrom(i)]

InitConvertList ==
    /\ cb_rows = -1
    /\ cb_pc = <<>>
    /\ cb_issued = <<>>
    /\ cb_result = "none"

\* convert_bit_list(ctx, locally_converted_bits): one convert_bit future per
\* row, with the index of the row, all given to try_join_all
ConvertBitList(rows) ==
    /\ cb_rows = -1
    /\ cb_rows' = rows
    /\ cb_pc' = [i \in 0..(rows - 1) |-> "start"]
    /\ UNCHANGED <<cb_issued, cb_result>>
    /\ UNCHANGED notConvertList

\* convert_bit of row i up to the await in xor_specialized_1: the
\* multiplication under ctx1 is issued
ConvertBitXor1(i) ==
    /\ cb_result = "none"
    /\ i \in DOMAIN cb_pc
    /\ cb_pc[i] = "start"
    /\ cb_issued' = Append(cb_issued, Multiplication(i, "Xor1"))
    /\ cb_pc' = [cb_pc EXCEPT ![i] = "xor1"]
    /\ UNCHANGED <<cb_rows, cb_result>>
    /\ UNCHANGED notConvertList

\* the first multiplication of row i resolves: `?` returns its error, else
\* the multiplication under ctx2 is issued
ConvertBitXor2(i, ok) ==
    /\ cb_result = "none"
    /\ i \in DOMAIN cb_pc
    /\ cb_pc[i] = "xor1"
    /\ IF ok
       THEN /\ cb_issued' = Append(cb_issued, Multiplication(i, "Xor2"))
            /\ cb_pc' = [cb_pc EXCEPT ![i] = "xor2"]
       ELSE /\ cb_pc' = [cb_pc EXCEPT ![i] = "Err"]
            /\ UNCHANGED cb_issued
    /\ UNCHANGED <<cb_rows, cb_result>>
    /\ UNCHANGED notConvertList

\* the second multiplication of row i resolves and convert_bit returns
ConvertBitReturn(i, ok) ==
    /\ cb_result = "none"
    /\ i \in DOMAIN cb_pc
    /\ cb_pc[i] = "xor2"
    /\ cb_pc' = [cb_pc EXCEPT ![i] = IF ok THEN "Ok" ELSE "Err"]
    /\ UNCHANGED <<cb_rows, cb_issued, cb_result>>
    /\ UNCHANGED notConvertList

\* try_join_all resolves: with the first error, dropping the futures of the
\* other rows, or with the results of all rows
ConvertBitListReturn ==
    /\ cb_rows >= 0
    /\ cb_result = "none"
    /\ IF \E i \in DOMAIN cb_pc : cb_pc[i] = "Err"
       THEN /\ cb_result' = "Err"
            /\ cb_pc' = [i \in DOMAIN cb_pc |->
                            IF cb_pc[i] \in {"Ok", "Err"} THEN cb_pc[i]
                            ELSE "dropped"]
       ELSE /\ \A i \in DOMAIN cb_pc : cb_pc[i] = "Ok"
            /\ cb_result' = "Ok"
            /\ UNCHANGED cb_pc
    /\ UNCHANGED <<cb_rows, cb_issued>>
    /\ UNCHANGED notConvertList

NextConvertList ==
    \/ \E rows \in 0..MaxRows : ConvertBitList(rows)
    \/ \E i \in 0..(MaxRows - 1) : ConvertBitXor1(i)
    \/ \E i \in 0..(MaxRows - 1), ok \in BOOLEAN : ConvertBitXor2(i, ok)
    \/ \E i \in 0..(MaxRows - 1), ok \in BOOLEAN : ConvertBitReturn(i, ok)
    \/ ConvertBitListReturn

(***************************************************************************)
(* The SendBuffer on its own: new, push, remove_random                     *)
(***************************************************************************)

\* pushes made on one SendBuffer in the model
MaxPushes == 4

\* the channels of the buffer
SbChannels == {<<"H2", "gate">>, <<"H3", "gate">>}

NoReturnYet == [kind |-> "none", channel_id |-> <<"", "">>, data |-> <<>>]

\* `assert!(self.len() > 0)`
RemoveFromEmpty == "assertion failed: self.len() > 0"

RemoveEntryAll(sb, c) == [x \in {} |-> sb[x]]

\* the map without the entry of c
RemoveEntry(sb, c) == [x \in DOMAIN sb \ {c} |-> sb[x]]

InitSendBuffer ==
    /\ sb_made = FALSE
    /\ sb_max = 0
    /\ sb_inner = <<>>
    /\ sb_ret = NoReturnYet
    /\ sb_pushed = [c \in SbChannels |-> <<>>]
    /\ sb_emitted = [c \in SbChannels |-> <<>>]
    /\ sb_n = 0

\* SendBuffer::new(max_channel_capacity)
SbNew(max_channel_capacity) ==
    /\ ~sb_made
    /\ sb_made' = TRUE
    /\ sb_max' = max_channel_capacity
    /\ sb_inner' = <<>>
    /\ UNCHANGED <<sb_ret, sb_pushed, sb_emitted, sb_n>>
    /\ UNCHANGED notSendBuffer

\* SendBuffer::push(channel_id, msg)
SbPush(channel_id, record_id) ==
    /\ sb_made
    /\ sb_n < MaxPushes
    /\ LET envelope == [record_id |-> record_id, payload |-> sb_n]
           pushed == SendBufferPush(sb_inner, sb_max, channel_id, envelope)
       IN  /\ sb_inner' = pushed.inner
           /\ sb_ret' = IF pushed.data # <<>>
                        THEN [kind |-> "Some", channel_id |-> channel_id,
                              data |-> pushed.data]
                        ELSE [kind |-> "None", channel_id |-> channel_id,
                              data |-> <<>>]
           /\ sb_pushed' = [sb_pushed EXCEPT ![channel_id] = Append(@, envelope)]
           /\ sb_emitted' = [sb_emitted EXCEPT ![channel_id] = @ \o pushed.data]
    /\ sb_n' = sb_n + 1
    /\ UNCHANGED <<sb_made, sb_max>>
    /\ UNCHANGED notSendBuffer

\* SendBuffer::remove_random: the entry of the key the map yields first, which
\* may be any of its keys
SbRemoveRandom(channel_id) ==
    /\ sb_made
    /\ channel_id \in DOMAIN sb_inner
    /\ sb_inner' = RemoveEntry(sb_inner, channel_id)
    /\ sb_ret' = [kind |-> "removed", channel_id |-> channel_id,
                  data |-> sb_inner[channel_id]]
    /\ sb_emitted' = [sb_emitted EXCEPT ![channel_id] = @ \o sb_inner[channel_id]]
    /\ UNCHANGED <<sb_made, sb_max, sb_pushed, sb_n>>
    /\ UNCHANGED notSendBuffer

\* SendBuffer::remove_random on a buffer without entries: the assertion fails
SbRemoveRandomEmpty ==
    /\ sb_made
    /\ DOMAIN sb_inner = {}
    /\ sb_ret.kind # "panic"
    /\ sb_ret' = [kind |-> "panic", channel_id |-> <<"", "">>,
                  data |-> <<RemoveFromEmpty>>]
    /\ UNCHANGED <<sb_made, sb_max, sb_inner, sb_pushed, sb_emitted, sb_n>>
    /\ UNCHANGED notSendBuffer

NextSendBuffer ==
    \/ \E max_channel_capacity \in 0..MaxItemsInBatch : SbNew(max_channel_capacity)
    \/ \E c \in SbChannels, r \in 0..1 : SbPush(c, r)
    \/ \E c \in SbChannels : SbRemoveRandom(c)
    \/ SbRemoveRandomEmpty

Init ==
    /\ InitSend /\ InitRegistry /\ InitRecv /\ InitGateway /\ InitDzkp
    /\ InitConvert /\ InitSwitch /\ InitSendBuffer /\ InitRouter
    /\ InitInfo /\ InitConvertList

SpecSend == Init /\ [][NextSend]_vars

\* the executor runs every send future that can make progress and the
\* transport polls the stream whenever it is not pending
SpecSendFair ==
    /\ SpecSend
    /\ WF_vars(PollNext)
    /\ \A i \in RecordIds :
          /\ WF_vars(OrderingSend(i))
          /\ WF_vars(OrderingClose(i))
          /\ WF_vars(SendMetrics(i))

SpecRegistry == Init /\ [][NextRegistry]_vars

SpecRecv == Init /\ [][NextRecv]_vars

SpecMeshSend == Init /\ [][NextMeshSend]_vars

SpecMeshReceive == Init /\ [][NextMeshReceive]_vars

SpecEventLoop == Init /\ [][NextEventLoop]_vars

SpecDzkp == Init /\ [][NextDzkp]_vars

SpecConvert == Init /\ [][NextConvert]_vars

SpecSwitch == Init /\ [][NextSwitch]_vars

SpecSendBuffer == Init /\ [][NextSendBuffer]_vars

SpecRouter == Init /\ [][NextRouter]_vars

SpecInfo == Init /\ [][NextInfo]_vars

SpecConvertList == Init /\ [][NextConvertList]_vars

\* the query whose subscriber reads its stream
DrainedQuery == CHOOSE q \in QueryIds : \A x \in QueryIds : q <= x

\* the executor runs every query_stream call and the loop task whenever they
\* can make progress, select! takes a branch that is ready again and again,
\* and the subscriber of the drained query takes what its stream holds
SpecRouterFair ==
    /\ SpecRouter
    /\ \A c \in QrCalls : WF_vars(QueryStreamSend(c))
    /\ \A c \in QrCalls : WF_vars(QueryStreamAck(c))
    /\ SF_vars(LoopSubscribe)
    /\ SF_vars(LoopHalt)
    /\ \A p \in RouterPeers : SF_vars(LoopRoute(p))
    /\ WF_vars(LoopRouteResume)
    /\ \A c \in QrCalls :
          WF_vars(qr_call[c].query_id = DrainedQuery /\ StreamNext(c))

\* the prover runs every step of a round it has begun
SpecDzkpFair ==
    /\ SpecDzkp
    /\ WF_vars(DzkpComputeProof)
    /\ WF_vars(\E left \in DzLefts(dz_lambda) : DzkpShareProof(left))
    /\ WF_vars(DzkpChallenge)
    /\ WF_vars(DzkpRecurse)
    /\ WF_vars(DzkpNextRound)

\* the executor runs a receive call whose oneshot has resolved
SpecMeshReceiveFair ==
    /\ SpecMeshReceive
    /\ \A k \in RecvTasks : WF_vars(GatewayReceiveAwait(k))

\* and the loop task takes a receive request that waits in its channel
SpecReorderFair ==
    /\ SpecMeshReceiveFair
    /\ WF_vars(LoopReceiveRequest)

\* the executor runs a send call that can put its request in the channel, the
\* loop task takes a send request that waits in its channel and the sink
\* completes every send it is given
SpecMeshSendFair ==
    /\ SpecMeshSend
    /\ \A j \in SendTasks : WF_vars(GatewaySend(j))
    /\ SF_vars(LoopSendMessage)
    /\ WF_vars(SinkResult(TRUE))
    /\ WF_vars(LoopSleepOrElse)
    /\ WF_vars(TimePasses)

\* tokio::select! starts its poll at a branch picked at random, so a branch
\* that is ready again and again is taken; the loop task is scheduled, the
\* sink completes every send it is given and time goes on
SpecEventLoopFair ==
    /\ SpecEventLoop
    /\ SF_vars(LoopReceiveRequest)
    /\ SF_vars(LoopReceiveMessages)
    /\ SF_vars(LoopSendMessage)
    /\ WF_vars(LoopSleepOrElse)
    /\ WF_vars(\E ok \in BOOLEAN : SinkResult(ok))
    /\ WF_vars(TimePasses)

(***************************************************************************)
(* Properties of the send channel (SpecSend).                              *)
(***************************************************************************)
\* the send call for record i has committed its record to the OrderingSender
CommittedCall(i) ==
    \/ pc[i] = "close"
    \/ pc[i] \in {"metrics", "done"} /\ result[i] = Ok

RECURSIVE Payloads(_)
\* serialised payloads of records 0..k-1, concatenated
Payloads(k) == IF k = 0 THEN <<>> ELSE Payloads(k - 1) \o Serialize(msg[k - 1])

\* C1: the stream yields the serialised payloads in ascending record order,
\* whatever order send was called in: every byte yielded so far is the byte of
\* the record at that position, that record's send has committed, and once the
\* stream has ended the bytes are exactly the payloads of records 0..n-1.
StreamInRecordOrder ==
    /\ Len(streamed) = w
    /\ \A k \in 1..Len(streamed) :
          LET i == (k - 1) \div MsgSize IN
          /\ CommittedCall(i)
          /\ streamed[k] = Serialize(msg[i])[((k - 1) % MsgSize) + 1]
    /\ \A i \in RecordIds : i \in slots => i * MsgSize >= w
    /\ eos > 0 => streamed = Payloads(total_records.n)

\* C1 witness: three records, committed out of order, streamed completely
ReorderedStreamComplete ==
    /\ total_records = Specified(3)
    /\ reordered
    /\ eos = 1
    /\ streamed = Payloads(3)

\* the stream has ended at most once, only on a channel closed at n with the
\* bytes of all n records yielded; the send of record n-1 has closed the
\* channel at n, and a due end-of-stream is never left with the reader parked
EndOfStreamOnlyAfterAll ==
    /\ eos <= 1
    /\ eos > 0 =>
          /\ total_records.kind = "Specified"
          /\ closed_at = total_records.n
          /\ Len(streamed) = total_records.n * MsgSize
          /\ \A i \in 0..(total_records.n - 1) : CommittedCall(i)
    /\ \A i \in RecordIds :
          (is_last(total_records, i) /\ result[i] = Ok) =>
              /\ closed_at = i + 1
              /\ (w >= closed_at * MsgSize /\ eos = 0) => ~stream_ready
    /\ closed_at >= 0 => is_last(total_records, closed_at - 1)

\* every record of a Specified(n) channel has been passed to send
AllSendsCalled ==
    /\ total_records.kind = "Specified"
    /\ \A i \in 0..(total_records.n - 1) : pc[i] # "idle"

\* C2: for Specified(n) the stream ends once, and only after the bytes of all
\* n records, whatever order the records are sent in; and once all n records
\* have been passed to send, the stream does end.
EndOfStreamAfterLastRecord ==
    /\ []EndOfStreamOnlyAfterAll
    /\ AllSendsCalled ~> (eos = 1)

\* C2 witness: Specified(2), record 1 committed before record 0, stream ended
LastRecordSentFirstEnded ==
    /\ total_records = Specified(2)
    /\ reordered
    /\ eos = 1
    /\ Len(streamed) = 2 * MsgSize

\* C3: a send with record_id >= n on a Specified(n) channel returns
\* TooManyRecords{record_id, total_records} and changes nothing of the channel:
\* ring, cursor, slots, close bound and wakers stay as they were, and such a
\* record is never written.
TooManyRecordsLeavesChannel ==
    /\ [](\A i \in RecordIds :
            (total_records.kind = "Specified" /\ i >= total_records.n) =>
                /\ i \notin written
                /\ pc[i] \in {"idle", "metrics", "done"}
                /\ pc[i] # "idle" => result[i] = TooManyRecords(i, total_records))
    /\ [][\A i \in RecordIds :
            (/\ total_records.kind = "Specified"
             /\ i >= total_records.n
             /\ pc[i] = "idle"
             /\ pc'[i] # "idle") =>
                /\ result'[i] = TooManyRecords(i, total_records)
                /\ UNCHANGED <<osVars, chanVars, histVars>>]_vars

\* C3 witness: record 3 refused on a Specified(3) channel that holds records
TooManyRecordsReturned ==
    /\ total_records = Specified(3)
    /\ result[3] = TooManyRecords(3, Specified(3))
    /\ written # {}
    /\ closed_at = -1

\* C4 as claimed: the counters never run ahead of the committed records
CountersAtMostCommitted ==
    /\ RECORDS_SENT <= Cardinality(written)
    /\ BYTES_SENT <= MsgSize * Cardinality(written)

Backpressure ==
    /\ [](/\ \A i \in write_ready : pc[i] = "suspended" /\ WindowFull(i)
          /\ \A i \in RecordIds : pc[i] = "suspended" => i \in write_ready
          /\ \A j \in slots :
                w <= j * MsgSize /\ (j + 1) * MsgSize <= w + capacity_bytes
          /\ Cardinality(slots) * MsgSize <= capacity_bytes)
    /\ [][\A i \in RecordIds :
            /\ (pc[i] = "write" /\ pc'[i] # "write") =>
                  /\ pc'[i] = "suspended" <=> i * MsgSize - w >= capacity_bytes
                  /\ pc'[i] # "suspended" => i \in slots'
            /\ (pc[i] = "suspended" /\ pc'[i] # "suspended") =>
                  pc'[i] = "write" /\ w' > w]_vars

\* C9 witness: a writer beyond the window is suspended while the window is
\* full of unread records
WriterSuspendedWindowFull ==
    /\ write_ready # {}
    /\ Cardinality(slots) * MsgSize = capacity_bytes
    /\ capacity_bytes = 2 * MsgSize

\* C10: on an Indeterminate channel the ring holds one message, and record
\* i+1 is committed only after the reader has taken record i.
IndeterminateOneAtATime ==
    is_indeterminate(total_records) =>
        /\ capacity_bytes = MsgSize
        /\ \A i \in RecordIds :
              (i + 1) \in written => w >= (i + 1) * MsgSize

\* C10 witness: Indeterminate channel, record 1 committed after record 0 was
\* taken, with the send of record 2 suspended behind it
IndeterminateInterleaved ==
    /\ is_indeterminate(total_records)
    /\ 1 \in slots
    /\ w = MsgSize
    /\ 2 \in write_ready

(***************************************************************************)
(* Properties of the registry (SpecRegistry).                              *)
(***************************************************************************)
\* callers whose get_or_create call on channel c has returned
ReturnedOn(c) ==
    {p \in Callers : reg_pc[p] = "returned" /\ reg_args[p].channel_id = c}

\* C5: per channel, exactly one get_or_create call returns Some(stream), every
\* other call returns None with a handle to the same GatewaySender, and at
\* most one GatewaySender is ever built for the channel.
OneSenderOneStreamPerChannel ==
    \A c \in Channels :
        /\ Cardinality({k \in 1..Len(senders) : senders[k].channel_id = c}) <= 1
        /\ ReturnedOn(c) # {} =>
              Cardinality({p \in ReturnedOn(c) : reg_ret[p].stream}) = 1
        /\ \A p \in ReturnedOn(c) :
              /\ reg_ret[p].sender = inner[c]
              /\ inner[c] # 0
              /\ senders[inner[c]].channel_id = c

\* C5 witness: on one channel a call has returned the stream, another holds
\* the occupied entry and a third waits for the entry
ContendedGetOrCreate ==
    \E c \in Channels : \E p1, p2, p3 \in Callers :
        /\ reg_args[p1].channel_id = c /\ reg_pc[p1] = "returned" /\ reg_ret[p1].stream
        /\ reg_args[p2].channel_id = c /\ reg_pc[p2] = "occupied"
        /\ reg_args[p3].channel_id = c /\ reg_pc[p3] = "entry"

\* C12: a get_or_create call with total_records = Unspecified panics before
\* it touches the registry: the call never reaches the entry, returns neither
\* a sender nor a stream and holds no lock, the panicking step leaves the map,
\* the senders and the locks as they were, and no GatewaySender ever carries
\* an unspecified total.
UnspecifiedTotalPanics ==
    /\ [](/\ \A p \in Callers :
                (reg_pc[p] # "idle" /\ reg_args[p].total_records = Unspecified) =>
                    /\ reg_pc[p] = "panicked"
                    /\ reg_ret[p] = NoReturn
                    /\ \A c \in Channels : shard_lock[c] # p
          /\ \A p \in Callers :
                reg_pc[p] = "panicked" => reg_args[p].total_records = Unspecified
          /\ \A k \in 1..Len(senders) : is_specified(senders[k].total_records))
    /\ [][\A p \in Callers :
            (reg_pc[p] = "idle" /\ reg_args'[p].total_records = Unspecified
                                /\ reg_pc'[p] # "idle") =>
                /\ reg_pc'[p] = "panicked"
                /\ UNCHANGED <<inner, senders, shard_lock, reg_ret>>]_vars

\* C12 witness: a call with an unspecified total has panicked on a channel
\* that still has no entry, while another channel was created by another call
UnspecifiedCallPanicked ==
    \E p, q \in Callers :
        /\ reg_pc[p] = "panicked"
        /\ reg_args[p].total_records = Unspecified
        /\ inner[reg_args[p].channel_id] = 0
        /\ reg_pc[q] = "returned"
        /\ reg_ret[q].stream

\* C13 as claimed: a call that finds the channel already created with another
\* total_records than the one it passes panics, so no call returns a sender
\* whose total disagrees with the total it asked for
MismatchedTotalPanics ==
    \A p \in Callers :
        reg_pc[p] = "returned" =>
            senders[reg_ret[p].sender].total_records = reg_args[p].total_records

(***************************************************************************)
(* Properties of the receive buffer (SpecRecv).                            *)
(***************************************************************************)
\* the receive requests made for (c, r), by oneshot
RequestsFor(c, r) ==
    {o \in 1..Len(oneshots) :
        oneshots[o].channel_id = c /\ oneshots[o].record_id = r}

\* the payloads that arrived for (c, r)
PayloadsFor(c, r) ==
    {rb_arrived[k][3] : k \in {j \in 1..Len(rb_arrived) :
                                  rb_arrived[j][1] = c /\ rb_arrived[j][2] = r}}

\* C6: a request made before its payload waits in the buffer and is completed
\* once with that payload when it arrives; a payload that arrives first is
\* stored and handed once to the first request; after the match the entry is
\* gone. No awaiter gets more than one payload, a payload of another
\* (channel, record), or a payload handed to someone else.
ReceiveMatchedOnce ==
    /\ \A c \in Channels, r \in RbRecords :
          LET R == RequestsFor(c, r)
              P == PayloadsFor(c, r)
          IN  /\ (Cardinality(R) = 1 /\ P = {}) =>
                    \A o \in R : /\ Entry(rb_inner, c, r) = Requested(o)
                                 /\ oneshots[o].got = <<>>
                                 /\ oneshots[o].tx = "held"
              /\ (R = {} /\ Cardinality(P) = 1 /\ rb_panic = NoPanic) =>
                    \A v \in P : Entry(rb_inner, c, r) = Received(v)
              /\ (Cardinality(R) = 1 /\ Cardinality(P) = 1 /\ rb_panic = NoPanic) =>
                    \A o \in R, v \in P :
                        /\ Entry(rb_inner, c, r) = Vacant
                        /\ oneshots[o].rx_alive => oneshots[o].got = <<v>>
                        /\ oneshots[o].tx \in {"sent", "failed"}
    /\ \A o \in 1..Len(oneshots) :
          /\ Len(oneshots[o].got) <= 1
          /\ \A k \in 1..Len(oneshots[o].got) :
                oneshots[o].got[k] \in
                    PayloadsFor(oneshots[o].channel_id, oneshots[o].record_id)
          /\ \A o2 \in 1..Len(oneshots) :
                (o2 # o /\ oneshots[o].got # <<>>) => oneshots[o2].got # oneshots[o].got

\* C6 witness: one request was completed by a payload that arrived after it,
\* another by a payload that was waiting for it
MatchedInBothOrders ==
    /\ rb_panic = NoPanic
    /\ \E o1, o2 \in 1..Len(oneshots) :
          /\ oneshots[o1].by = "receive_messages" /\ oneshots[o1].got # <<>>
          /\ oneshots[o2].by = "receive_request" /\ oneshots[o2].got # <<>>

\* C7: a second request for a (channel, record) whose payload has not arrived
\* panics with "More than one request to receive a message for RecordId(r)".
SecondRequestPanics ==
    \A c \in Channels, r \in RbRecords :
        (Cardinality(RequestsFor(c, r)) >= 2 /\ PayloadsFor(c, r) = {}) =>
            rb_panic = MoreThanOneRequest(r)

\* C7 witness: two requests for record 1 of a channel whose payload has not
\* arrived, with the payload of another record stored, and the panic raised
SecondRequestPanicked ==
    /\ rb_panic = MoreThanOneRequest(1)
    /\ \E c \in Channels :
          /\ Cardinality(RequestsFor(c, 1)) = 2
          /\ PayloadsFor(c, 1) = {}
          /\ Entry(rb_inner, c, 0)[1] = "Received"

\* C8 as claimed: every second request and every second payload for the same
\* (channel, record) panics
DuplicatesAlwaysPanic ==
    \A c \in Channels, r \in RbRecords :
        (Cardinality(RequestsFor(c, r)) >= 2 \/ Cardinality(PayloadsFor(c, r)) >= 2)
            => rb_panic # NoPanic

(***************************************************************************)
(* Properties of the event loop (SpecEventLoop, SpecEventLoopFair).        *)
(***************************************************************************)
\* both request channels are closed and empty and the network stream has
\* ended and is drained
AllSourcesClosed ==
    /\ gw_handle = "dropped"
    /\ ~net_open
    /\ recv_q = <<>> /\ send_q = <<>> /\ net_in = <<>>

\* C14 as claimed: once the receive-request channel, the network stream and
\* the send-request channel are closed, the running loop breaks
ClosedSourcesEndLoop == (AllSourcesClosed /\ LoopAlive) ~> LoopEnded

\* C15: no source starves another. A source that stays ready from some point
\* on (a receive request, a network frame, a send request) is served by the
\* running loop again and again, while the tasks and the peer go on producing
\* requests and frames without end.
NoSourceStarves ==
    /\ []<>(recv_q = <<>> \/ LoopEnded) \/ []<><<LoopReceiveRequest>>_vars
    /\ []<>(net_in = <<>> \/ LoopEnded) \/ []<><<LoopReceiveMessages>>_vars
    /\ []<>(send_q = <<>> \/ LoopEnded) \/ []<><<LoopSendMessage>>_vars

\* C15 witness: the loop is in its select with a receive request, a full
\* stream of frames and a send request all ready, after it has already taken
\* a frame and sent a batch
AllSourcesReady ==
    /\ gw_loop = "select"
    /\ recv_q # <<>> /\ Len(net_in) = MaxNetFrames /\ send_q # <<>>
    /\ sink_out # {}
    /\ Entry(rb_inner, <<"H2", MeshStep>>, 0)[1] = "Received"

\* C17: a failure of the network sink is fatal and panics of the loop reach
\* the joiner. A sink.send that returns an error ends the loop task with the
\* panic "Failed to send data to the network" and hands nothing to the sink;
\* the loop task has a panic payload exactly when it panicked; Gateway::join
\* completes only once the loop task has ended, is never stuck on a loop that
\* panicked, and on such a loop it resumes the unwinding with the very
\* payload of the loop's panic, whichever panic that was.
SinkFailurePanicsJoiner ==
    /\ [](/\ (gw_loop = "panicked") <=> (gw_panic # NoPanic)
          /\ join_result # NoResult => (gw_handle = "joined" /\ LoopEnded)
          /\ (gw_handle = "joined" /\ gw_loop = "panicked") =>
                \/ join_result = NoResult /\ ENABLED GatewayJoinReturn
                \/ join_result = <<"resume_unwind", gw_panic>>)
    /\ [][SinkResult(FALSE) =>
            /\ gw_loop' = "panicked"
            /\ gw_panic' = SinkFailed
            /\ sink_out' = sink_out]_vars

\* C17 witness: the sink failed on a batch and the task that joined the
\* Gateway got the panic "Failed to send data to the network"
SinkPanicReachedJoiner ==
    /\ gw_loop = "panicked"
    /\ gw_panic = SinkFailed
    /\ gw_handle = "joined"
    /\ join_result = <<"resume_unwind", SinkFailed>>

SendReturnsAfterDelivery ==
    \A j \in SendTasks :
        (stask[j].pc = "returned" /\ stask[j].result = Ok) =>
            <<stask[j].channel_id, stask[j].env.record_id, stask[j].env.ty>>
                \in sink_out

\* the message types Mesh::send cannot serialise: too large for the payload,
\* or failing in T::serialize
Unserialisable ==
    {ty.name : ty \in {t \in MsgTypes :
        t.SIZE_IN_BYTES > MESSAGE_PAYLOAD_SIZE_BYTES \/ ~t.serialize_ok}}

\* the message types of the envelopes held anywhere behind Mesh::send
EnqueuedTypes ==
    {send_q[i].env.ty : i \in 1..Len(send_q)}
    \cup UNION {{send_buf[c][i].ty : i \in 1..Len(send_buf[c])} :
                   c \in DOMAIN send_buf}
    \cup (IF sink_pending = NoFrame THEN {}
          ELSE {sink_pending.buf_to_send[i].ty :
                   i \in 1..Len(sink_pending.buf_to_send)})
    \cup {e[3] : e \in sink_out}

\* C20: a Mesh::send of a message larger than the payload, or one whose
\* serialisation fails, returns SerializationError with the record id and the
\* step of the call and enqueues nothing: the call never reaches
\* Gateway::send, its step leaves the send channel, the send buffer and the
\* sink as they were, and none of them ever holds an envelope of such a call.
\* A message that fits and serialises is not refused.
SerializationErrorEnqueuesNothing ==
    /\ [](/\ \A j \in SendTasks :
                /\ stask[j].env.ty \in Unserialisable =>
                      /\ stask[j].pc = "returned"
                      /\ stask[j].result =
                            SerializationError(stask[j].env.record_id, MeshStep)
                /\ (stask[j].pc # "idle" /\ stask[j].env.ty \notin Unserialisable) =>
                      stask[j].result \in {NoResult, Ok, ChannelClosed}
          /\ EnqueuedTypes \cap Unserialisable = {})
    /\ [][\A j \in SendTasks :
            (stask'[j] # stask[j] /\ stask'[j].env.ty \in Unserialisable) =>
                UNCHANGED <<send_q, send_buf, sink_pending, sink_out, gw_loop>>]_vars

\* C20 witness: one call was refused for its size and one for its failing
\* serialisation, while a well-formed message of the same record went out
SerializationErrorsReturned ==
    /\ stask[1].env.ty = "Wide"
    /\ stask[1].result = SerializationError(0, MeshStep)
    /\ stask[2].env.ty = "Failing"
    /\ stask[2].result = SerializationError(0, MeshStep)
    /\ <<<<"H2", MeshStep>>, 0, "Fp31">> \in sink_out

\* the (channel, record) pairs the loop has accepted from Mesh::send so far:
\* held in the SendBuffer, being sent, or handed to the sink
AcceptedRecords ==
    SendWaiting(send_buf)
    \cup (IF sink_pending = NoFrame THEN {}
          ELSE {<<sink_pending.channel_id, sink_pending.buf_to_send[i].record_id>> :
                   i \in 1..Len(sink_pending.buf_to_send)})
    \cup {<<e[1], e[2]>> : e \in sink_out}

\* C22 as claimed: a record is written at most once per channel, so when the
\* loop takes a send request for a (channel, record) it has accepted before,
\* the loop panics reporting the record as received twice
SecondSendPanics ==
    [][(/\ LoopSendMessage
        /\ <<Head(send_q).channel_id, Head(send_q).env.record_id>>
              \in AcceptedRecords) =>
            /\ gw_loop' = "panicked"
            /\ gw_panic' = ReceivedTwice(Head(send_q).env.record_id)]_vars

(***************************************************************************)
(* Reordering through the gateway (SpecReorderFair). The peer's frames     *)
(* carry the records in any order, one batch per record or two together;   *)
(* the payload of record r is 200 + r.                                     *)
(***************************************************************************)
\* C21: a receive for record i is fulfilled by payload i, whatever the order
\* in which the records arrive and whether or not the other records of the
\* channel are requested. A oneshot that was given a payload holds the payload
\* of its own record and the call returns it; a payload that arrived before
\* its request stays in the buffer under its record; and a call whose payload
\* is in the buffer returns.
ReorderedReceiveFulfilled ==
    /\ [](\A k \in RecvTasks : rtask[k].pc # "idle" =>
            /\ oneshots[k].got \in {<<>>, <<PeerPayload(oneshots[k].record_id)>>}
            /\ (rtask[k].pc = "returned" /\ rtask[k].result[1] = "Ok") =>
                  rtask[k].result = OkPayload(PeerPayload(oneshots[k].record_id))
            /\ (rtask[k].pc = "returned" /\ oneshots[k].tx = "sent") =>
                  rtask[k].result[1] = "Ok")
    /\ [](\A c \in Channels, r \in RbRecords :
            Entry(rb_inner, c, r)[1] = "Received" =>
                Entry(rb_inner, c, r) = Received(PeerPayload(r)))
    /\ \A k \in RecvTasks :
          (/\ rtask[k].pc = "awaiting"
           /\ Entry(rb_inner, oneshots[k].channel_id, oneshots[k].record_id)[1]
                  = "Received")
              ~> (rtask[k].pc = "returned")

\* C21 witness: a receive for record 1 has returned the payload of record 1
\* while record 0 of the channel lies in the buffer and was never requested
Record1ReceivedRecord0Ignored ==
    /\ gw_cfg.items_in_batch = 1
    /\ rtask[1].pc = "returned"
    /\ oneshots[1].record_id = 1
    /\ rtask[1].result = OkPayload(PeerPayload(1))
    /\ rtask[2].pc = "idle"
    /\ Entry(rb_inner, <<"H2", MeshStep>>, 0) = Received(PeerPayload(0))

(***************************************************************************)
(* The zero-knowledge proof of a round (SpecDzkp)                          *)
(***************************************************************************)

RECURSIVE Binomial(_, _)
\* the binomial coefficient
Binomial(n, k) ==
    IF k = 0 \/ k = n THEN 1 ELSE Binomial(n - 1, k - 1) + Binomial(n - 1, k)

\* the value that follows the last lam values of e on the polynomial of degree
\* below lam through them at consecutive x-coordinates: its lam-th finite
\* difference is zero
NextOnPolynomial(e, lam) ==
    LET s == Len(e) - lam
        term(k) == Binomial(lam, k) * e[s + k + 1]
        plus == {k \in 0..(lam - 1) : (lam - 1 - k) % 2 = 0}
        minus == (0..(lam - 1)) \ plus
        sum(S) == LET RECURSIVE acc(_)
                      acc(T) == IF T = {} THEN 0
                                ELSE LET k == CHOOSE x \in T : TRUE
                                     IN  term(k) + acc(T \ {k})
                  IN  acc(S)
    IN  FieldFrom(sum(plus) + (Prime - 1) * sum(minus))

RECURSIVE Extended(_, _, _)
\* e followed by the next n values on its polynomial
Extended(e, lam, n) ==
    IF n = 0 THEN e ELSE Extended(Append(e, NextOnPolynomial(e, lam)), lam, n - 1)

\* the polynomial through ys at 0..lam-1, at the x-coordinate lam + i
Extrapolated(ys, lam, i) == Extended(ys, lam, i + 1)[lam + i + 1]

RECURSIVE SumOfProducts(_, _, _, _)
\* the sum over the first n chunks of the product of the two polynomials of the
\* chunk at the x-coordinate x
SumOfProducts(uv, lam, x, n) ==
    IF n = 0 THEN 0
    ELSE LET u == uv[n][1]
             v == uv[n][2]
             product == IF x < lam
                        THEN FieldMul(u[x + 1], v[x + 1])
                        ELSE FieldMul(Extrapolated(u, lam, x - lam),
                                      Extrapolated(v, lam, x - lam))
         IN  FieldAdd(SumOfProducts(uv, lam, x, n - 1), product)

\* C23: the proof of a round has 2λ-1 entries, entry i below λ the sum over the
\* chunks of u[i]*v[i] and entry λ+i the sum of the products of the two
\* extrapolations at the x-coordinate λ+i; the sample lists give the sample
\* proofs
ProofIsSumOfProducts ==
    dz_phase \in {"ProofEmitted", "ChallengeIssued", "Collapsed"} =>
        /\ Len(dz_proof) = 2 * dz_lambda - 1
        /\ \A x \in 0..(2 * dz_lambda - 2) :
              dz_proof[x + 1] = SumOfProducts(dz_uv, dz_lambda, x, Len(dz_uv))
        /\ dz_lambda = 4 /\ dz_uv = zip_chunks(U_1, V_1, 4) => dz_proof = PROOF_1
        /\ dz_lambda = 4 /\ dz_uv = zip_chunks(U_2, V_2, 4) => dz_proof = PROOF_2

\* the second round of the sample has its proof
SampleSecondProof ==
    /\ dz_phase = "ProofEmitted"
    /\ dz_lambda = 4
    /\ dz_round = 1
    /\ dz_uv = zip_chunks(U_2, V_2, 4)
    /\ dz_proof = PROOF_2

(***************************************************************************)
(* The folding law (SpecDzkp)                                              *)
(***************************************************************************)

\* the polynomial of a chunk at the x-coordinate r
AtChallenge(ys, lam, r) == TableEval(ChallengeTable(lam, r), ys)[1]

\* C24: N input chunks fold to ceil(N/λ) chunks; the pair obtained from the
\* k-th input chunk is at position k mod λ of output chunk floor(k/λ); the
\* positions of the last chunk that no input chunk fills are zero; no input
\* chunks give the empty list
FoldingLaw ==
    dz_phase = "Collapsed" =>
        LET N == Len(dz_uv)
            lam == dz_lambda
        IN  /\ Len(dz_out) = (N + lam - 1) \div lam
            /\ N = 0 => dz_out = <<>>
            /\ \A c \in 1..Len(dz_out) :
                  Len(dz_out[c][1]) = lam /\ Len(dz_out[c][2]) = lam
            /\ \A k \in 0..(N - 1) :
                  /\ dz_out[(k \div lam) + 1][1][(k % lam) + 1]
                        = AtChallenge(dz_uv[k + 1][1], lam, dz_r)
                  /\ dz_out[(k \div lam) + 1][2][(k % lam) + 1]
                        = AtChallenge(dz_uv[k + 1][2], lam, dz_r)
            /\ \A k \in N..(lam * Len(dz_out) - 1) :
                  /\ dz_out[(k \div lam) + 1][1][(k % lam) + 1] = 0
                  /\ dz_out[(k \div lam) + 1][2][(k % lam) + 1] = 0

\* five chunks of three elements have folded to a full chunk and a padded one
FiveChunksFolded ==
    /\ dz_phase = "Collapsed"
    /\ dz_lambda = 3
    /\ Len(dz_uv) = 5
    /\ Len(dz_out) = 2
    /\ dz_out[2][1][2] # 0
    /\ dz_out[2][1][3] = 0

(***************************************************************************)
(* Prover and verifier derive the same challenge and state (SpecDzkp)      *)
(***************************************************************************)

SingleTuple ==
    /\ dz_phase = "Collapsed"
    /\ Len(dz_out) = 1
    /\ Len(dz_out[1][1]) = dz_lambda
    /\ Len(dz_out[1][2]) = dz_lambda

PhaseOrder ==
    {<<"Idle", "Collecting">>, <<"Collecting", "ProofEmitted">>,
     <<"ProofEmitted", "ChallengeIssued">>, <<"ChallengeIssued", "Collapsed">>,
     <<"Collapsed", "Collecting">>}

\* the two shares add up to the proof of the round's uv list
SharesOfRoundProof ==
    /\ dz_proof = compute_proof(dz_uv, dz_lambda)
    /\ Len(dz_left) = Len(dz_proof)
    /\ Len(dz_right) = Len(dz_proof)
    /\ \A i \in 1..Len(dz_proof) : FieldAdd(dz_left[i], dz_right[i]) = dz_proof[i]

LocallyConverted == \A h \in Helpers : mc_triple[h] # <<>>

\* C28: for every match key, bit index and XOR sharing of the key, the shares
\* that convert_bit returns on the three helpers after convert_bit_local are
\* a replicated sharing that reconstructs to that bit of the key, 0 or 1;
\* the three locally converted sharings are replicated sharings of the three
\* bits of the XOR sharing
ConvertedBitReconstructs ==
    /\ LocallyConverted =>
          \A k \in 1..3 :
              /\ Consistent(LocalBit(k))
              /\ Reconstruct(LocalBit(k)) = BitOf(mc_input[k].left, mc_bit)
    /\ mc_phase \in {"Xor1", "Done"} =>
          /\ Consistent(mc_xor1)
          /\ Reconstruct(mc_xor1)
                = (BitOf(mc_input[1].left, mc_bit) + BitOf(mc_input[2].left, mc_bit)) % 2
    /\ mc_phase = "Done" =>
          /\ Consistent(mc_result)
          /\ Reconstruct(mc_result) = BitOf(mc_key, mc_bit)
          /\ Reconstruct(mc_result) \in {0, 1}

\* a key whose converted bit is one, shared with three different shares and
\* converted with non-zero masks
OneBitConverted ==
    /\ mc_phase = "Done"
    /\ mc_bit = 1
    /\ BitOf(mc_key, mc_bit) = 1
    /\ mc_input[1].left # mc_input[2].left
    /\ mc_input[2].left # mc_input[3].left
    /\ mc_result[1].left # 0
    /\ Reconstruct(mc_result) = 1

(***************************************************************************)
(* The lifecycle of the Switch (SpecSwitch)                                *)
(***************************************************************************)

\* the step is a call of new_peer or of listen
NewPeerOrListenCall ==
    /\ sw_calls' = sw_calls + 1
    /\ sw_task' = sw_task

\* C29: new_peer and listen succeed only in the Idle state and panic with
\* "Not in Idle state" otherwise, listen succeeds at most once, and the state
\* only moves Idle -> Preparing -> Listening, never to an earlier state
SwitchLifecycle ==
    /\ [][NewPeerOrListenCall /\ sw_state # "Idle" => sw_outcome' = NotInIdle]_vars
    /\ [][SwitchListenSpawn => sw_task = "none"]_vars
    /\ [][StateRank(sw_state') >= StateRank(sw_state)]_vars

(***************************************************************************)
(* The capacity of a channel at its creation (SpecRegistry)                *)
(***************************************************************************)

\* the call that built sender k
CreatorOf(k) ==
    {p \in Callers : reg_pc[p] = "returned" /\ reg_ret[p].stream
                                            /\ reg_ret[p].sender = k}

\* C30: the OrderingSender of a channel is built with capacity*S bytes when
\* total_records is Specified and with S bytes when it is Indeterminate,
\* with spare 0; the call that creates the channel panics with "capacity
\* should not overflow" exactly when capacity*S does not fit usize; the
\* capacity of later calls for the channel changes nothing
CapacityAtCreation ==
    /\ [](\A k \in 1..Len(senders) :
            /\ senders[k].spare = 0
            /\ is_indeterminate(senders[k].total_records) =>
                  senders[k].write_size = MsgSize
            /\ \A p \in CreatorOf(k) :
                  ~is_indeterminate(reg_args[p].total_records) =>
                      /\ senders[k].write_size = reg_args[p].capacity * MsgSize
                      /\ reg_args[p].capacity * MsgSize <= UsizeMax)
    /\ [](\A p \in Callers :
            reg_pc[p] = CapacityOverflow =>
                /\ ~is_indeterminate(reg_args[p].total_records)
                /\ reg_args[p].capacity * MsgSize > UsizeMax
                /\ reg_ret[p] = NoReturn)
    /\ [][\A p \in Callers :
            reg_pc[p] = "vacant" /\ reg_pc'[p] # "vacant" =>
                IF ~is_indeterminate(reg_args[p].total_records)
                   /\ reg_args[p].capacity * MsgSize > UsizeMax
                THEN /\ reg_pc'[p] = CapacityOverflow
                     /\ UNCHANGED <<inner, senders>>
                ELSE reg_pc'[p] = "returned" /\ reg_ret'[p].stream]_vars
    /\ [][/\ \A k \in 1..Len(senders) : Len(senders') >= k /\ senders'[k] = senders[k]
          /\ \A p \in Callers :
                reg_pc[p] = "occupied" /\ reg_pc'[p] # "occupied" =>
                    /\ reg_pc'[p] = "returned"
                    /\ reg_ret'[p] = [sender |-> inner[reg_args[p].channel_id],
                                      stream |-> FALSE]
                    /\ senders' = senders]_vars

\* a channel was created with the capacity of its first caller, a later call
\* with the largest capacity got the same sender, and the creation of the
\* other channel with the largest capacity has panicked
LaterCapacityIgnored ==
    \E p, q, o \in Callers :
        /\ reg_pc[p] = "returned" /\ reg_ret[p].stream
        /\ reg_args[p].total_records = Specified(2)
        /\ reg_args[p].capacity = p
        /\ reg_pc[q] = "returned" /\ ~reg_ret[q].stream
        /\ reg_args[q].channel_id = reg_args[p].channel_id
        /\ reg_args[q].capacity = UsizeMax
        /\ reg_ret[q].sender = reg_ret[p].sender
        /\ senders[reg_ret[p].sender].write_size = p * MsgSize
        /\ reg_pc[o] = CapacityOverflow

(***************************************************************************)
(* Batches of the SendBuffer (SpecSendBuffer)                              *)
(***************************************************************************)

\* the step is a push
IsPush == sb_n' = sb_n + 1

\* the envelope of the push that the step makes
PushedNow == sb_pushed'[sb_ret'.channel_id][Len(sb_pushed'[sb_ret'.channel_id])]

\* the vector of the pushed channel with the new envelope
VecAfterPush == Append(PendingOf(sb_inner, sb_ret'.channel_id), PushedNow)

\* C31: with max_capacity >= 1, push returns Some(batch) exactly when the
\* pending count of the channel reaches max_capacity with this push and None
\* otherwise; the batch is the pending envelopes of the channel with the new
\* one and the pending list of the channel becomes empty; after every push
\* each channel holds fewer than max_capacity envelopes
PushEmitsFullBatch ==
    /\ [][IsPush /\ sb_max >= 1 =>
            /\ sb_ret'.kind = "Some" <=> Len(VecAfterPush) = sb_max
            /\ sb_ret'.kind = "None" <=> Len(VecAfterPush) < sb_max
            /\ sb_ret'.kind = "Some" =>
                  /\ sb_ret'.data = VecAfterPush
                  /\ sb_inner'[sb_ret'.channel_id] = <<>>
            /\ sb_ret'.kind = "None" =>
                  sb_inner'[sb_ret'.channel_id] = VecAfterPush
            /\ \A c \in DOMAIN sb_inner' \ {sb_ret'.channel_id} :
                  c \in DOMAIN sb_inner /\ sb_inner'[c] = sb_inner[c]]_vars
    /\ [](sb_made /\ sb_max >= 1 =>
            \A c \in DOMAIN sb_inner : Len(sb_inner[c]) < sb_max)

\* a push has returned a batch of two while the other channel holds one
\* pending envelope
BatchOfTwoReturned ==
    /\ sb_max = 2
    /\ sb_ret.kind = "Some"
    /\ Len(sb_ret.data) = 2
    /\ sb_inner[sb_ret.channel_id] = <<>>
    /\ \E c \in DOMAIN sb_inner : Len(sb_inner[c]) = 1

\* all the envelopes of a channel that the buffer has returned or still holds
Accounted(c) == sb_emitted[c] \o PendingOf(sb_inner, c)

\* the step is a remove_random that returned an entry
IsRemove == \E c \in DOMAIN sb_inner : c \notin DOMAIN sb_inner'

\* C32: over any sequence of push and remove_random every pushed envelope is,
\* exactly once and in the order of the pushes of its channel, in the batches
\* returned for the channel followed by its pending list; remove_random takes
\* exactly one entry out of the map, returns all its pending envelopes and
\* leaves the other channels as they were
EnvelopesConserved ==
    /\ [](\A c \in SbChannels : Accounted(c) = sb_pushed[c])
    /\ [](\A c, d \in SbChannels :
            \A i \in 1..Len(Accounted(c)), j \in 1..Len(Accounted(d)) :
                Accounted(c)[i].payload = Accounted(d)[j].payload
                    => c = d /\ i = j)
    /\ [][sb_n' = sb_n + 1 \/ IsRemove =>
            /\ sb_emitted' = [sb_emitted EXCEPT ![sb_ret'.channel_id] =
                                @ \o sb_ret'.data]
            /\ \A c \in SbChannels \ {sb_ret'.channel_id} :
                  PendingOf(sb_inner', c) = PendingOf(sb_inner, c)]_vars
    /\ [][IsRemove =>
            /\ DOMAIN sb_inner' = DOMAIN sb_inner \ {sb_ret'.channel_id}
            /\ sb_ret'.channel_id \in DOMAIN sb_inner
            /\ sb_ret'.data = sb_inner[sb_ret'.channel_id]
            /\ \A c \in DOMAIN sb_inner' : sb_inner'[c] = sb_inner[c]
            /\ sb_pushed' = sb_pushed]_vars

\* remove_random has returned the one pending envelope of a channel after a
\* batch of two of the other channel, which holds one more envelope
PartialBatchRemoved ==
    /\ sb_ret.kind = "removed"
    /\ Len(sb_ret.data) = 1
    /\ \E c \in DOMAIN sb_inner : Len(sb_inner[c]) = 1 /\ Len(sb_emitted[c]) = 2

(***************************************************************************)
(* Envelopes on their way to the network sink (SpecMeshSendFair)           *)
(***************************************************************************)

\* Mesh::send of task j has returned Ok for record r
Accepted(j, r) ==
    /\ stask[j].pc = "returned"
    /\ stask[j].result = Ok
    /\ stask[j].env.record_id = r

\* a batch with record r of channel c has gone to the network sink
HandedToSink(c, r) == \E ty \in MsgTypes : <<c, r, ty.name>> \in sink_out

\* C33: every envelope that Mesh::send accepted is eventually handed to the
\* network sink while the event loop runs, for every batch size and every
\* number of messages on the channel
AcceptedEnvelopeReachesSink ==
    \A j \in SendTasks, dest \in GwRoles, r \in RbRecords :
        (Accepted(j, r) /\ stask[j].channel_id = <<dest, MeshStep>>)
            ~> (LoopEnded \/ HandedToSink(<<dest, MeshStep>>, r))

\* with batches of one envelope every accepted envelope is handed to the sink
AcceptedReachesSinkUnbatched ==
    \A j \in SendTasks, dest \in GwRoles, r \in RbRecords :
        (Accepted(j, r) /\ stask[j].channel_id = <<dest, MeshStep>>
                        /\ gw_cfg.items_in_batch = 1)
            ~> (LoopEnded \/ HandedToSink(<<dest, MeshStep>>, r))

(***************************************************************************)
(* Independence of the entries of the ReceiveBuffer (SpecRecv)             *)
(***************************************************************************)

\* the (channel, record) pairs the call of the step names: the pair of the new
\* receive request, the pairs of the envelopes of the new frame
Touched ==
    {<<oneshots'[o].channel_id, oneshots'[o].record_id>> :
        o \in (Len(oneshots) + 1)..Len(oneshots')}
    \cup {<<rb_arrived'[k][1], rb_arrived'[k][2]>> :
            k \in (Len(rb_arrived) + 1)..Len(rb_arrived')}

\* the buffer and the oneshots of the state with two more receive requests
\* made, whose senders the two calls below are given
WithTwoRequests ==
    [inner |-> rb_inner,
     oneshots |-> oneshots \o
        [k \in 1..2 |-> [channel_id |-> <<"", "">>, record_id |-> 0,
                         rx_alive |-> TRUE, tx |-> "held", got |-> <<>>,
                         by |-> ""]],
     panic |-> rb_panic]

\* call k (1 or 2) on the pair (c, r): a receive_request with the sender of
\* request k, or a receive_messages with one envelope; a panic ends the run
RbCall(st, kind, k, c, r) ==
    IF st.panic # NoPanic THEN st
    ELSE IF kind = "request"
         THEN receive_request(st, c, r, Len(oneshots) + k)
         ELSE receive_messages(st, c, <<[record_id |-> r, payload |-> 300 + k]>>)

\* C34: receive_request and receive_messages for channel C and record r change
\* only the entry (C, r): the entries of the other records of C and of the
\* other channels stay as they were, as do the oneshots of the requests for
\* other pairs, and two calls on different (channel, record) pairs give the
\* same buffer in either order
EntriesIndependent ==
    /\ [][Touched # {} =>
            /\ \A c \in Channels, r \in RbRecords :
                  <<c, r>> \notin Touched =>
                      Entry(rb_inner', c, r) = Entry(rb_inner, c, r)
            /\ \A o \in 1..Len(oneshots) :
                  <<oneshots[o].channel_id, oneshots[o].record_id>> \notin Touched
                      => oneshots'[o] = oneshots[o]]_vars
    /\ [](\A c1, c2 \in Channels, r1, r2 \in RbRecords :
          \A kind1, kind2 \in {"request", "messages"} :
             <<c1, r1>> # <<c2, r2>> =>
                LET st == WithTwoRequests
                    ab == RbCall(RbCall(st, kind1, 1, c1, r1), kind2, 2, c2, r2)
                    ba == RbCall(RbCall(st, kind2, 2, c2, r2), kind1, 1, c1, r1)
                IN  /\ (ab.panic = NoPanic) <=> (ba.panic = NoPanic)
                    /\ ab.panic = NoPanic => ab = ba)

\* a frame has fulfilled the request for one record while the buffer holds a
\* payload for another record of the same channel and an entry of another
\* channel
EntryFulfilledBesideOthers ==
    \E o \in 1..Len(oneshots) :
        /\ oneshots[o].tx = "sent"
        /\ \E r \in RbRecords \ {oneshots[o].record_id} :
              Entry(rb_inner, oneshots[o].channel_id, r)[1] = "Received"
        /\ \E c \in Channels \ {oneshots[o].channel_id}, r \in RbRecords :
              Entry(rb_inner, c, r) # Vacant

(***************************************************************************)
(* compute_proof over lists of chunks (SpecDzkp)                           *)
(***************************************************************************)

\* the element-wise field sum of two proofs
ProofSum(p, q) == [i \in 1..Len(p) |-> FieldAdd(p[i], q[i])]

RECURSIVE OrdersOf(_)
\* the orders the elements of a set of positions can be put in
OrdersOf(positions) ==
    IF positions = {} THEN {<<>>}
    ELSE UNION {{<<x>> \o rest : rest \in OrdersOf(positions \ {x})} :
                  x \in positions}

\* the orders the chunks of a list of n chunks can be put in
ChunkOrders(n) == OrdersOf(1..n)

\* the list with the chunks at positions i and j exchanged
Exchanged(uv, i, j) ==
    [k \in 1..Len(uv) |-> IF k = i THEN uv[j] ELSE IF k = j THEN uv[i] ELSE uv[k]]

\* C35: compute_proof is additive and order-independent over chunks: the
\* proof of a list is the element-wise field sum of the proofs of the two
\* lists it is cut into, at every cut; every permutation of the chunks gives
\* the same proof (every permutation of a generated list, every exchange of
\* two chunks of the longer sample list); the empty list gives the all-zero
\* proof of length 2λ-1
ProofAdditiveAnyOrder ==
    dz_phase = "ProofEmitted" =>
        /\ Len(dz_proof) = 2 * dz_lambda - 1
        /\ \A cut \in 0..Len(dz_uv) :
              dz_proof = ProofSum(
                  compute_proof(SubSeq(dz_uv, 1, cut), dz_lambda),
                  compute_proof(SubSeq(dz_uv, cut + 1, Len(dz_uv)), dz_lambda))
        /\ Len(dz_uv) <= MaxChunks =>
              \A order \in ChunkOrders(Len(dz_uv)) :
                  compute_proof([k \in 1..Len(dz_uv) |-> dz_uv[order[k]]],
                                dz_lambda) = dz_proof
        /\ \A i, j \in 1..Len(dz_uv) :
              compute_proof(Exchanged(dz_uv, i, j), dz_lambda) = dz_proof
        /\ dz_uv = <<>> => \A i \in 1..(2 * dz_lambda - 1) : dz_proof[i] = 0

\* the proof of a list of four different chunks has been computed, and it is
\* not the zero proof
FourChunkProofEmitted ==
    /\ dz_phase = "ProofEmitted"
    /\ Len(dz_uv) = 4
    /\ \A i, j \in 1..4 : i # j => dz_uv[i] # dz_uv[j]
    /\ \E i \in 1..Len(dz_proof) : dz_proof[i] # 0

(***************************************************************************)
(* Subscriptions and routing of the Switch (SpecRouter)                    *)
(***************************************************************************)

\* the envelopes that have been put on the stream of call c
Delivered(c) == qr_got[c] \o qr_stream[c]

\* the envelope route holds for the stream of call c while it waits for room
PendingFor(c) ==
    IF qr_pending # NoPending /\ qr_pending.call = c
    THEN <<qr_pending.env>> ELSE <<>>

\* the events the loop has taken from the link of peer p
TakenFrom(p) == Len(qr_sent[p]) - Len(qr_links[p])

\* the envelopes of the first k events of peer p that are for query q, in the
\* order the peer sent them
EventsFor(p, q, k) ==
    SelectSeq([n \in 1..k |-> [origin |-> p, query_id |-> qr_sent[p][n], n |-> n]],
              LAMBDA e : e.query_id = q)

\* the envelopes of a sequence that are tagged with peer p
FromPeer(envelopes, p) == SelectSeq(envelopes, LAMBDA e : e.origin = p)

IsPrefixOf(a, b) == Len(a) <= Len(b) /\ SubSeq(b, 1, Len(a)) = a

\* call c holds a subscription that the loop has acknowledged and its stream
\* has not been dropped
Subscribed(c) == qr_ack[c] = "sent" /\ qr_call[c].pc \in {"awaiting", "returned"}

\* C36: query_stream(q) returns only after the loop has registered the
\* subscription for q and acknowledged it; the events for q that the loop
\* takes from a peer link after that are put on the returned stream tagged
\* with the peer they came from, in the order that peer sent them, and the
\* stream never holds an event of another query
SubscribedStreamGetsItsEvents ==
    /\ [][\A c \in QrCalls :
            /\ qr_call'[c].pc = "returned" /\ qr_call[c].pc # "returned"
                  => qr_ack[c] = "sent"
            /\ qr_ack'[c] = "sent" /\ qr_ack[c] # "sent"
                  => /\ qr_call[c].query_id \in DOMAIN qr_routes'
                     /\ qr_routes'[qr_call[c].query_id] = c]_vars
    /\ [](\A c \in QrCalls :
            /\ \A i \in 1..Len(Delivered(c)) :
                  LET e == Delivered(c)[i]
                  IN  /\ qr_ack[c] = "sent"
                      /\ e.query_id = qr_call[c].query_id
                      /\ e.origin \in sw_peers
                      /\ e.n <= Len(qr_sent[e.origin])
                      /\ qr_sent[e.origin][e.n] = e.query_id
            /\ Subscribed(c) =>
                  \A p \in RouterPeers :
                     LET forwarded == FromPeer(Delivered(c) \o PendingFor(c), p)
                         taken == EventsFor(p, qr_call[c].query_id, TakenFrom(p))
                     IN  /\ IsPrefixOf(forwarded, taken)
                         /\ LoopRunning => forwarded = taken)

\* a subscriber has taken two envelopes of its query that came from different
\* peers, and the subscriber of the other query has taken one as well
TwoOriginsForwarded ==
    \E c, d \in QrCalls :
        /\ c # d
        /\ qr_call[c].pc = "returned"
        /\ Len(qr_got[c]) >= 2
        /\ qr_got[c][1].origin # qr_got[c][2].origin
        /\ qr_got[d] # <<>>
        /\ qr_call[d].query_id # qr_call[c].query_id

\* the step in which the loop takes a command from the command channel
TakesCommand ==
    /\ LoopRunning /\ qr_loop = "select"
    /\ qr_cmd # <<>>
    /\ qr_cmd' # qr_cmd
    /\ qr_links' = qr_links

\* the step in which the loop takes an event from the link of peer p
TakesEvent(p) == qr_links[p] # <<>> /\ qr_links'[p] = Tail(qr_links[p])

\* C37: the Switch keeps at most one subscriber per query id and drops or
\* misroutes no event silently: a second subscription for a subscribed query
\* id panics the loop with the assertion of subscribe, and a NetworkEvent for
\* a query id without a subscriber panics the loop with "No subscribers for"
OneSubscriberPerQuery ==
    /\ [](\A c, d \in QrCalls :
            c # d /\ qr_ack[c] = "sent" /\ qr_ack[d] = "sent"
                => qr_call[c].query_id # qr_call[d].query_id)
    /\ [][TakesCommand /\ Head(qr_cmd).kind = "Subscribe"
              /\ Head(qr_cmd).query_id \in DOMAIN qr_routes
            => /\ qr_loop' = "panicked"
               /\ qr_panic' = RouteInserted
               /\ qr_ack'[Head(qr_cmd).call] = "dropped"]_vars
    /\ [][\A p \in RouterPeers :
            TakesEvent(p) =>
               LET data == Head(qr_links[p])
               IN  IF data.query_id \notin DOMAIN qr_routes
                   THEN /\ qr_loop' = "panicked"
                        /\ qr_panic' = NoSubscribers(data.query_id)
                        /\ qr_stream' = qr_stream
                   ELSE \/ qr_loop' = "panicked" /\ qr_panic' = StreamClosed
                        \/ \E c \in QrCalls :
                              /\ qr_routes[data.query_id] = c
                              /\ Delivered(c)' \o PendingFor(c)' =
                                    Delivered(c) \o
                                    <<[origin |-> p, query_id |-> data.query_id,
                                       n |-> data.n]>>]_vars

\* the loop has panicked on the second subscription for a query id that
\* another call had subscribed, after forwarding an event to the first
SecondSubscriptionPanicked ==
    /\ qr_loop = "panicked"
    /\ qr_panic = RouteInserted
    /\ \E c, d \in QrCalls :
          /\ qr_ack[c] = "sent" /\ qr_ack[d] = "dropped"
          /\ qr_call[c].query_id = qr_call[d].query_id
          /\ qr_got[c] # <<>>

(***************************************************************************)
(* Progress of the Switch loop (SpecRouterFair)                            *)
(***************************************************************************)

\* the loop is no longer bound to serve: the Switch was halted or its loop
\* has ended
NotServing == qr_halted \/ LoopGone

\* event n of peer p has been put on the stream of a subscriber
OnStream(p, n) ==
    \E c \in QrCalls : \E i \in 1..Len(Delivered(c)) :
        Delivered(c)[i].origin = p /\ Delivered(c)[i].n = n

\* event n of peer p waits in the link of the peer or in route
Waiting(p, n) ==
    \/ \E i \in 1..Len(qr_links[p]) : qr_links[p][i].n = n
    \/ qr_pending # NoPending /\ qr_pending.env.origin = p /\ qr_pending.env.n = n

\* C38: while the Switch is Listening and has not been halted, every
\* query_stream call eventually returns and every event received for a
\* subscribed query is eventually forwarded to its subscriber, even when the
\* subscriber of a different query does not drain its stream (stated for the
\* calls and events of the query whose subscriber does read its stream)
SwitchLoopProgress ==
    /\ \A c \in QrCalls :
          (/\ sw_state = "Listening"
           /\ qr_call[c].pc \in {"sending", "awaiting"}
           /\ qr_call[c].query_id = DrainedQuery)
             ~> (qr_call[c].pc = "returned" \/ NotServing)
    /\ \A p \in RouterPeers, n \in 1..MaxEvents :
          (/\ sw_state = "Listening"
           /\ Waiting(p, n)
           /\ qr_sent[p][n] = DrainedQuery
           /\ DrainedQuery \in DOMAIN qr_routes)
             ~> (OnStream(p, n) \/ NotServing)

(***************************************************************************)
(* The bytes of the HPKE info (SpecInfo)                                   *)
(***************************************************************************)

\* the Info values that Info::new accepts
AcceptedInfos ==
    {made[2] : made \in
        {m \in {InfoNewResult(key_id, epoch, mkp, helper, site) :
                  key_id \in KeyIdentifiers, epoch \in Epochs,
                  mkp \in InfoStrings, helper \in InfoStrings,
                  site \in InfoStrings} : m[1] = "Ok"}}

\* C39: into_bytes is injective on the values that Info::new accepts: no
\* accepted Info that differs from the serialised one in key_id, epoch,
\* match_key_provider_origin, helper_origin or site domain gives the same
\* byte string
InfoBytesInjective ==
    hp_pc = "bytes" =>
        \A other \in AcceptedInfos :
            into_bytes(other) = hp_bytes => other = hp_new[2]

\* the same for accepted values whose strings have no NUL character
InfoBytesInjectiveWithoutNul ==
    LET NulFree(info) ==
            \A str \in {info.match_key_provider_origin, info.helper_origin,
                        info.site_registrable_domain} :
                \A i \in 1..Len(str) : str[i] # 0
    IN  hp_pc = "bytes" /\ NulFree(hp_new[2]) =>
            /\ Len(hp_bytes) = info_len(hp_new[2])
            /\ \A other \in AcceptedInfos :
                  NulFree(other) /\ into_bytes(other) = hp_bytes
                      => other = hp_new[2]

(***************************************************************************)
(* The multiplications of convert_bit_list (SpecConvertList)               *)
(***************************************************************************)

\* C40: in convert_bit_list row i is processed under RecordId i and the two
\* multiplications of its convert_bit run under the distinct narrowed steps
\* xor1, then xor2; whatever the number of rows and the interleaving of the
\* rows, no two multiplications of one call have the same (step, record id)
\* pair, so no record id is sent twice on one channel
MultiplicationsDistinct ==
    /\ \A k \in 1..Len(cb_issued) :
          /\ cb_issued[k].record_id = cb_issued[k].row
          /\ cb_issued[k].step \in {Append(BaseStep, "xor1"),
                                    Append(BaseStep, "xor2")}
    /\ \A j, k \in 1..Len(cb_issued) :
          /\ j # k => <<cb_issued[j].step, cb_issued[j].record_id>>
                        # <<cb_issued[k].step, cb_issued[k].record_id>>
          /\ j < k /\ cb_issued[j].row = cb_issued[k].row
                => /\ cb_issued[j].step = Append(BaseStep, "xor1")
                   /\ cb_issued[k].step = Append(BaseStep, "xor2")

\* a call with three rows has returned Ok after the rows issued their six
\* multiplications interleaved: a later row began before an earlier one
AllRowsConvertedInterleaved ==
    /\ cb_result = "Ok"
    /\ cb_rows = 3
    /\ Len(cb_issued) = 6
    /\ cb_issued[1].row > cb_issued[2].row

====
